---------------------------- MODULE Spec2Model ----------------------------
(***************************************************************************)
(* The E57 fixture builders of cloud_registration:                         *)
(*   src/create_test_e57_files.py                  (suffix _root)          *)
(*   src/test_data/create_test_files.py            (suffix _td)            *)
(*   src/test_data/create_test_e57_codec_fixed.py  (the codec builders)    *)
(* A file is a sequence of bytes (naturals 0..255).  Python offsets are    *)
(* 0-based: byte offset k of a buffer is element k+1 of the sequence.      *)
(***************************************************************************)
EXTENDS Naturals, Integers, Sequences, FiniteSets, TLC

(***************************************************************************)
(* Bounds of the model.                                                    *)
(***************************************************************************)
\* entry points (a script's main, or one call of create_e57_file) per run
MaxCalls == 2
\* a caller of create_e57_file may pass the valid document followed by
\* 0..MaxExtra bytes of trailing white space (XML allows it)
MaxExtra == 1
\* largest xml_length the layout computations are applied to
MaxXmlLength == 2200
\* most points in a list given to the payload encoders
MaxPoints == 2
\* largest coordinate of those points
MaxCoord == 2
\* most files missing, and most files short of content, when the verification
\* script is run
MaxMissing == 1
\* the two-pass layout: estimates up to this many pages, and documents with
\* up to MaxFiller bytes of trailing white space
MaxPages == 10
MaxFiller == 380

(***************************************************************************)
(* Byte-level helpers: struct.pack / struct.unpack, slices, str().         *)
(***************************************************************************)
RECURSIVE LittleEndian(_)
\* value of a little-endian byte string (struct.unpack('<Q'|'<I', b)[0])
LittleEndian(b) ==
  IF b = <<>> THEN 0 ELSE Head(b) + 256 * LittleEndian(Tail(b))

\* Python's buf[a:b]
Slice(buf, a, b) == SubSeq(buf, a + 1, b)

\* struct.pack('<I', n): 4 bytes, least significant first
pack_I(n) == [i \in 1..4 |-> (n \div (256 ^ (i - 1))) % 256]

\* struct.pack('<Q', n): 8 bytes, least significant first.  Every length the
\* model reaches is below 2^31, so bytes 5..8 are the zero bytes of the
\* 64-bit field.
pack_Q(n) == pack_I(n) \o <<0, 0, 0, 0>>

\* struct.unpack('<Q', buf[off:off+8])[0]
unpack_Q(buf, off) == LittleEndian(Slice(buf, off, off + 8))

\* struct.unpack('<I', buf[off:off+4])[0]
unpack_I(buf, off) == LittleEndian(Slice(buf, off, off + 4))

\* buf[a:b] = val  (bytearray slice assignment, len(val) = b - a)
SliceAssign(buf, a, b, val) ==
  SubSeq(buf, 1, a) \o val \o SubSeq(buf, b + 1, Len(buf))

\* struct.pack_into('<Q', buf, off, n)
pack_into_Q(buf, off, n) == SliceAssign(buf, off, off + 8, pack_Q(n))

\* b'\x00' * n   (empty when n <= 0)
Zeros(n) == [i \in 1..n |-> 0]

RECURSIVE Str(_)
\* str(n).encode('utf-8') for an integer n >= 0: decimal ASCII digits
Str(n) == IF n < 10 THEN <<48 + n>> ELSE Str(n \div 10) \o <<48 + (n % 10)>>

RECURSIVE Log2(_)
\* floor(log2 k), k >= 1
Log2(k) == IF k < 2 THEN 0 ELSE 1 + Log2(k \div 2)

\* bit pattern of the IEEE-754 single-precision value of the integer k >= 0
FloatBits(k) ==
  IF k = 0 THEN 0
  ELSE LET e == Log2(k)
       IN  (127 + e) * (2 ^ 23) + (k - 2 ^ e) * (2 ^ (23 - e))

\* the four bytes most significant first ('>f')
pack_f_big(k) == [i \in 1..4 |-> pack_I(FloatBits(k))[5 - i]]

\* struct.pack('<f', float(k)) for an integer-valued coordinate k
pack_f(k) == pack_I(FloatBits(k))

\* the text "ASTM-E57"
Signature == <<65, 83, 84, 77, 45, 69, 53, 55>>

\* the text fileOffset="
FileOffsetAttr == <<102, 105, 108, 101, 79, 102, 102, 115, 101, 116, 61, 34>>

IsDigit(c) == c >= 48 /\ c <= 57

\* positions (1-based) at which pat occurs in s
Occurrences(s, pat) ==
  {i \in 1..(Len(s) - Len(pat) + 1) :
      s[i] = pat[1] /\ SubSeq(s, i, i + Len(pat) - 1) = pat}

RECURSIVE ParseDigits(_, _, _)
\* the decimal number that starts at position i of s, acc so far
ParseDigits(s, i, acc) ==
  IF i <= Len(s) /\ IsDigit(s[i])
    THEN ParseDigits(s, i + 1, 10 * acc + (s[i] - 48))
    ELSE acc

\* the values of all fileOffset="..." attributes of a document
DeclaredOffsets(s) ==
  {ParseDigits(s, i + Len(FileOffsetAttr), 0) : i \in Occurrences(s, FileOffsetAttr)}

\* UTF-8 codes of the literal text, part 1, of create_compressed_vector_xml in src/create_test_e57_files.py (983 bytes)
xml_root_valid_text1 ==
  <<60, 63, 120, 109, 108, 32, 118, 101, 114, 115, 105, 111, 110, 61, 34, 49, 46, 48, 34, 32, 101,
    110, 99, 111, 100, 105, 110, 103, 61, 34, 85, 84, 70, 45, 56, 34, 63, 62, 10, 60, 101, 53, 55,
    82, 111, 111, 116, 32, 116, 121, 112, 101, 61, 34, 83, 116, 114, 117, 99, 116, 117, 114, 101,
    34, 32, 120, 109, 108, 110, 115, 61, 34, 104, 116, 116, 112, 58, 47, 47, 119, 119, 119, 46, 97,
    115, 116, 109, 46, 111, 114, 103, 47, 67, 79, 77, 77, 73, 84, 47, 69, 53, 55, 47, 50, 48, 49,
    48, 45, 101, 53, 55, 45, 118, 49, 46, 48, 34, 62, 10, 32, 32, 32, 32, 60, 102, 111, 114, 109,
    97, 116, 78, 97, 109, 101, 32, 116, 121, 112, 101, 61, 34, 83, 116, 114, 105, 110, 103, 34, 62,
    60, 33, 91, 67, 68, 65, 84, 65, 91, 65, 83, 84, 77, 32, 69, 53, 55, 32, 51, 68, 32, 73, 109, 97,
    103, 105, 110, 103, 32, 68, 97, 116, 97, 32, 70, 105, 108, 101, 93, 93, 62, 60, 47, 102, 111,
    114, 109, 97, 116, 78, 97, 109, 101, 62, 10, 32, 32, 32, 32, 60, 103, 117, 105, 100, 32, 116,
    121, 112, 101, 61, 34, 83, 116, 114, 105, 110, 103, 34, 62, 60, 33, 91, 67, 68, 65, 84, 65, 91,
    123, 49, 50, 51, 52, 53, 54, 55, 56, 45, 49, 50, 51, 52, 45, 53, 54, 55, 56, 45, 57, 65, 66, 67,
    45, 49, 50, 51, 52, 53, 54, 55, 56, 57, 65, 66, 67, 125, 93, 93, 62, 60, 47, 103, 117, 105, 100,
    62, 10, 32, 32, 32, 32, 60, 118, 101, 114, 115, 105, 111, 110, 77, 97, 106, 111, 114, 32, 116,
    121, 112, 101, 61, 34, 73, 110, 116, 101, 103, 101, 114, 34, 62, 49, 60, 47, 118, 101, 114, 115,
    105, 111, 110, 77, 97, 106, 111, 114, 62, 10, 32, 32, 32, 32, 60, 118, 101, 114, 115, 105, 111,
    110, 77, 105, 110, 111, 114, 32, 116, 121, 112, 101, 61, 34, 73, 110, 116, 101, 103, 101, 114,
    34, 62, 48, 60, 47, 118, 101, 114, 115, 105, 111, 110, 77, 105, 110, 111, 114, 62, 10, 32, 32,
    32, 32, 60, 101, 53, 55, 76, 105, 98, 114, 97, 114, 121, 86, 101, 114, 115, 105, 111, 110, 32,
    116, 121, 112, 101, 61, 34, 83, 116, 114, 105, 110, 103, 34, 62, 60, 33, 91, 67, 68, 65, 84, 65,
    91, 84, 101, 115, 116, 32, 76, 105, 98, 114, 97, 114, 121, 32, 49, 46, 48, 93, 93, 62, 60, 47,
    101, 53, 55, 76, 105, 98, 114, 97, 114, 121, 86, 101, 114, 115, 105, 111, 110, 62, 10, 32, 32,
    32, 32, 60, 99, 111, 111, 114, 100, 105, 110, 97, 116, 101, 77, 101, 116, 97, 100, 97, 116, 97,
    32, 116, 121, 112, 101, 61, 34, 83, 116, 114, 105, 110, 103, 34, 62, 60, 33, 91, 67, 68, 65, 84,
    65, 91, 84, 101, 115, 116, 32, 99, 111, 111, 114, 100, 105, 110, 97, 116, 101, 32, 109, 101,
    116, 97, 100, 97, 116, 97, 93, 93, 62, 60, 47, 99, 111, 111, 114, 100, 105, 110, 97, 116, 101,
    77, 101, 116, 97, 100, 97, 116, 97, 62, 10, 32, 32, 32, 32, 60, 100, 97, 116, 97, 51, 68, 32,
    116, 121, 112, 101, 61, 34, 86, 101, 99, 116, 111, 114, 34, 32, 97, 108, 108, 111, 119, 72, 101,
    116, 101, 114, 111, 103, 101, 110, 101, 111, 117, 115, 67, 104, 105, 108, 100, 114, 101, 110,
    61, 34, 49, 34, 62, 10, 32, 32, 32, 32, 32, 32, 32, 32, 60, 118, 101, 99, 116, 111, 114, 67,
    104, 105, 108, 100, 32, 116, 121, 112, 101, 61, 34, 83, 116, 114, 117, 99, 116, 117, 114, 101,
    34, 62, 10, 32, 32, 32, 32, 32, 32, 32, 32, 32, 32, 32, 32, 60, 103, 117, 105, 100, 32, 116,
    121, 112, 101, 61, 34, 83, 116, 114, 105, 110, 103, 34, 62, 60, 33, 91, 67, 68, 65, 84, 65, 91,
    123, 56, 55, 54, 53, 52, 51, 50, 49, 45, 52, 51, 50, 49, 45, 56, 55, 54, 53, 45, 67, 66, 65, 57,
    45, 57, 56, 55, 54, 53, 52, 51, 50, 49, 67, 66, 65, 125, 93, 93, 62, 60, 47, 103, 117, 105, 100,
    62, 10, 32, 32, 32, 32, 32, 32, 32, 32, 32, 32, 32, 32, 60, 110, 97, 109, 101, 32, 116, 121,
    112, 101, 61, 34, 83, 116, 114, 105, 110, 103, 34, 62, 60, 33, 91, 67, 68, 65, 84, 65, 91, 84,
    101, 115, 116, 32, 80, 111, 105, 110, 116, 32, 67, 108, 111, 117, 100, 93, 93, 62, 60, 47, 110,
    97, 109, 101, 62, 10, 32, 32, 32, 32, 32, 32, 32, 32, 32, 32, 32, 32, 60, 100, 101, 115, 99,
    114, 105, 112, 116, 105, 111, 110, 32, 116, 121, 112, 101, 61, 34, 83, 116, 114, 105, 110, 103,
    34, 62, 60, 33, 91, 67, 68, 65, 84, 65, 91, 84, 101, 115, 116, 32, 112, 111, 105, 110, 116, 32,
    99, 108, 111, 117, 100, 32, 119, 105, 116, 104, 32, 67, 111, 109, 112, 114, 101, 115, 115, 101,
    100, 86, 101, 99, 116, 111, 114, 93, 93, 62, 60, 47, 100, 101, 115, 99, 114, 105, 112, 116, 105,
    111, 110, 62, 10, 32, 32, 32, 32, 32, 32, 32, 32, 32, 32, 32, 32, 60, 112, 111, 105, 110, 116,
    115, 32, 116, 121, 112, 101, 61, 34, 67, 111, 109, 112, 114, 101, 115, 115, 101, 100, 86, 101,
    99, 116, 111, 114, 34, 32, 102, 105, 108, 101, 79, 102, 102, 115, 101, 116, 61, 34>>

\* UTF-8 codes of the literal text, part 2, of create_compressed_vector_xml in src/create_test_e57_files.py (555 bytes)
xml_root_valid_text2 ==
  <<34, 32, 114, 101, 99, 111, 114, 100, 67, 111, 117, 110, 116, 61, 34, 51, 34, 62, 10, 32, 32, 32,
    32, 32, 32, 32, 32, 32, 32, 32, 32, 32, 32, 32, 32, 60, 112, 114, 111, 116, 111, 116, 121, 112,
    101, 32, 116, 121, 112, 101, 61, 34, 83, 116, 114, 117, 99, 116, 117, 114, 101, 34, 62, 10, 32,
    32, 32, 32, 32, 32, 32, 32, 32, 32, 32, 32, 32, 32, 32, 32, 32, 32, 32, 32, 60, 99, 97, 114,
    116, 101, 115, 105, 97, 110, 88, 32, 116, 121, 112, 101, 61, 34, 70, 108, 111, 97, 116, 34, 32,
    112, 114, 101, 99, 105, 115, 105, 111, 110, 61, 34, 115, 105, 110, 103, 108, 101, 34, 32, 109,
    105, 110, 105, 109, 117, 109, 61, 34, 45, 49, 48, 48, 48, 46, 48, 34, 32, 109, 97, 120, 105,
    109, 117, 109, 61, 34, 49, 48, 48, 48, 46, 48, 34, 47, 62, 10, 32, 32, 32, 32, 32, 32, 32, 32,
    32, 32, 32, 32, 32, 32, 32, 32, 32, 32, 32, 32, 60, 99, 97, 114, 116, 101, 115, 105, 97, 110,
    89, 32, 116, 121, 112, 101, 61, 34, 70, 108, 111, 97, 116, 34, 32, 112, 114, 101, 99, 105, 115,
    105, 111, 110, 61, 34, 115, 105, 110, 103, 108, 101, 34, 32, 109, 105, 110, 105, 109, 117, 109,
    61, 34, 45, 49, 48, 48, 48, 46, 48, 34, 32, 109, 97, 120, 105, 109, 117, 109, 61, 34, 49, 48,
    48, 48, 46, 48, 34, 47, 62, 10, 32, 32, 32, 32, 32, 32, 32, 32, 32, 32, 32, 32, 32, 32, 32, 32,
    32, 32, 32, 32, 60, 99, 97, 114, 116, 101, 115, 105, 97, 110, 90, 32, 116, 121, 112, 101, 61,
    34, 70, 108, 111, 97, 116, 34, 32, 112, 114, 101, 99, 105, 115, 105, 111, 110, 61, 34, 115, 105,
    110, 103, 108, 101, 34, 32, 109, 105, 110, 105, 109, 117, 109, 61, 34, 45, 49, 48, 48, 48, 46,
    48, 34, 32, 109, 97, 120, 105, 109, 117, 109, 61, 34, 49, 48, 48, 48, 46, 48, 34, 47, 62, 10,
    32, 32, 32, 32, 32, 32, 32, 32, 32, 32, 32, 32, 32, 32, 32, 32, 60, 47, 112, 114, 111, 116, 111,
    116, 121, 112, 101, 62, 10, 32, 32, 32, 32, 32, 32, 32, 32, 32, 32, 32, 32, 32, 32, 32, 32, 60,
    99, 111, 100, 101, 99, 115, 32, 116, 121, 112, 101, 61, 34, 86, 101, 99, 116, 111, 114, 34, 32,
    97, 108, 108, 111, 119, 72, 101, 116, 101, 114, 111, 103, 101, 110, 101, 111, 117, 115, 67, 104,
    105, 108, 100, 114, 101, 110, 61, 34, 49, 34, 62, 10, 32, 32, 32, 32, 32, 32, 32, 32, 32, 32,
    32, 32, 32, 32, 32, 32, 32, 32, 32, 32, 60, 118, 101, 99, 116, 111, 114, 67, 104, 105, 108, 100,
    32, 116, 121, 112, 101, 61, 34, 67, 111, 109, 112, 114, 101, 115, 115, 101, 100, 86, 101, 99,
    116, 111, 114, 78, 111, 100, 101, 34, 32, 114, 101, 99, 111, 114, 100, 67, 111, 117, 110, 116,
    61, 34, 51, 34, 32, 102, 105, 108, 101, 79, 102, 102, 115, 101, 116, 61, 34>>

\* UTF-8 codes of the literal text, part 3, of create_compressed_vector_xml in src/create_test_e57_files.py (445 bytes)
xml_root_valid_text3 ==
  <<34, 62, 10, 32, 32, 32, 32, 32, 32, 32, 32, 32, 32, 32, 32, 32, 32, 32, 32, 32, 32, 32, 32, 32,
    32, 32, 32, 60, 112, 114, 111, 116, 111, 116, 121, 112, 101, 32, 116, 121, 112, 101, 61, 34, 83,
    116, 114, 117, 99, 116, 117, 114, 101, 34, 62, 10, 32, 32, 32, 32, 32, 32, 32, 32, 32, 32, 32,
    32, 32, 32, 32, 32, 32, 32, 32, 32, 32, 32, 32, 32, 32, 32, 32, 32, 60, 99, 97, 114, 116, 101,
    115, 105, 97, 110, 88, 32, 116, 121, 112, 101, 61, 34, 70, 108, 111, 97, 116, 34, 32, 112, 114,
    101, 99, 105, 115, 105, 111, 110, 61, 34, 115, 105, 110, 103, 108, 101, 34, 47, 62, 10, 32, 32,
    32, 32, 32, 32, 32, 32, 32, 32, 32, 32, 32, 32, 32, 32, 32, 32, 32, 32, 32, 32, 32, 32, 32, 32,
    32, 32, 60, 99, 97, 114, 116, 101, 115, 105, 97, 110, 89, 32, 116, 121, 112, 101, 61, 34, 70,
    108, 111, 97, 116, 34, 32, 112, 114, 101, 99, 105, 115, 105, 111, 110, 61, 34, 115, 105, 110,
    103, 108, 101, 34, 47, 62, 10, 32, 32, 32, 32, 32, 32, 32, 32, 32, 32, 32, 32, 32, 32, 32, 32,
    32, 32, 32, 32, 32, 32, 32, 32, 32, 32, 32, 32, 60, 99, 97, 114, 116, 101, 115, 105, 97, 110,
    90, 32, 116, 121, 112, 101, 61, 34, 70, 108, 111, 97, 116, 34, 32, 112, 114, 101, 99, 105, 115,
    105, 111, 110, 61, 34, 115, 105, 110, 103, 108, 101, 34, 47, 62, 10, 32, 32, 32, 32, 32, 32, 32,
    32, 32, 32, 32, 32, 32, 32, 32, 32, 32, 32, 32, 32, 32, 32, 32, 32, 60, 47, 112, 114, 111, 116,
    111, 116, 121, 112, 101, 62, 10, 32, 32, 32, 32, 32, 32, 32, 32, 32, 32, 32, 32, 32, 32, 32, 32,
    32, 32, 32, 32, 60, 47, 118, 101, 99, 116, 111, 114, 67, 104, 105, 108, 100, 62, 10, 32, 32, 32,
    32, 32, 32, 32, 32, 32, 32, 32, 32, 32, 32, 32, 32, 60, 47, 99, 111, 100, 101, 99, 115, 62, 10,
    32, 32, 32, 32, 32, 32, 32, 32, 32, 32, 32, 32, 60, 47, 112, 111, 105, 110, 116, 115, 62, 10,
    32, 32, 32, 32, 32, 32, 32, 32, 60, 47, 118, 101, 99, 116, 111, 114, 67, 104, 105, 108, 100, 62,
    10, 32, 32, 32, 32, 60, 47, 100, 97, 116, 97, 51, 68, 62, 10, 60, 47, 101, 53, 55, 82, 111, 111,
    116, 62>>

\* UTF-8 codes of the literal text, part 1, of create_malformed_xml in src/create_test_e57_files.py (357 bytes)
xml_root_malformed_text1 ==
  <<60, 63, 120, 109, 108, 32, 118, 101, 114, 115, 105, 111, 110, 61, 34, 49, 46, 48, 34, 32, 101,
    110, 99, 111, 100, 105, 110, 103, 61, 34, 85, 84, 70, 45, 56, 34, 63, 62, 10, 60, 101, 53, 55,
    82, 111, 111, 116, 32, 116, 121, 112, 101, 61, 34, 83, 116, 114, 117, 99, 116, 117, 114, 101,
    34, 32, 120, 109, 108, 110, 115, 61, 34, 104, 116, 116, 112, 58, 47, 47, 119, 119, 119, 46, 97,
    115, 116, 109, 46, 111, 114, 103, 47, 67, 79, 77, 77, 73, 84, 47, 69, 53, 55, 47, 50, 48, 49,
    48, 45, 101, 53, 55, 45, 118, 49, 46, 48, 34, 62, 10, 32, 32, 32, 32, 60, 102, 111, 114, 109,
    97, 116, 78, 97, 109, 101, 32, 116, 121, 112, 101, 61, 34, 83, 116, 114, 105, 110, 103, 34, 62,
    60, 33, 91, 67, 68, 65, 84, 65, 91, 65, 83, 84, 77, 32, 69, 53, 55, 32, 51, 68, 32, 73, 109, 97,
    103, 105, 110, 103, 32, 68, 97, 116, 97, 32, 70, 105, 108, 101, 93, 93, 62, 60, 47, 102, 111,
    114, 109, 97, 116, 78, 97, 109, 101, 62, 10, 32, 32, 32, 32, 60, 100, 97, 116, 97, 51, 68, 32,
    116, 121, 112, 101, 61, 34, 86, 101, 99, 116, 111, 114, 34, 32, 97, 108, 108, 111, 119, 72, 101,
    116, 101, 114, 111, 103, 101, 110, 101, 111, 117, 115, 67, 104, 105, 108, 100, 114, 101, 110,
    61, 34, 49, 34, 62, 10, 32, 32, 32, 32, 32, 32, 32, 32, 60, 118, 101, 99, 116, 111, 114, 67,
    104, 105, 108, 100, 32, 116, 121, 112, 101, 61, 34, 83, 116, 114, 117, 99, 116, 117, 114, 101,
    34, 62, 10, 32, 32, 32, 32, 32, 32, 32, 32, 32, 32, 32, 32, 60, 112, 111, 105, 110, 116, 115,
    32, 116, 121, 112, 101, 61, 34, 67, 111, 109, 112, 114, 101, 115, 115, 101, 100, 86, 101, 99,
    116, 111, 114, 34, 32, 102, 105, 108, 101, 79, 102, 102, 115, 101, 116, 61, 34>>

\* UTF-8 codes of the literal text, part 2, of create_malformed_xml in src/create_test_e57_files.py (457 bytes)
xml_root_malformed_text2 ==
  <<34, 32, 114, 101, 99, 111, 114, 100, 67, 111, 117, 110, 116, 61, 34, 105, 110, 118, 97, 108,
    105, 100, 95, 99, 111, 117, 110, 116, 34, 62, 10, 32, 32, 32, 32, 32, 32, 32, 32, 32, 32, 32,
    32, 32, 32, 32, 32, 60, 112, 114, 111, 116, 111, 116, 121, 112, 101, 32, 116, 121, 112, 101, 61,
    34, 83, 116, 114, 117, 99, 116, 117, 114, 101, 34, 62, 10, 32, 32, 32, 32, 32, 32, 32, 32, 32,
    32, 32, 32, 32, 32, 32, 32, 32, 32, 32, 32, 60, 99, 97, 114, 116, 101, 115, 105, 97, 110, 88,
    32, 116, 121, 112, 101, 61, 34, 70, 108, 111, 97, 116, 34, 32, 112, 114, 101, 99, 105, 115, 105,
    111, 110, 61, 34, 115, 105, 110, 103, 108, 101, 34, 47, 62, 10, 32, 32, 32, 32, 32, 32, 32, 32,
    32, 32, 32, 32, 32, 32, 32, 32, 32, 32, 32, 32, 60, 33, 45, 45, 32, 77, 105, 115, 115, 105, 110,
    103, 32, 99, 97, 114, 116, 101, 115, 105, 97, 110, 89, 32, 97, 110, 100, 32, 99, 97, 114, 116,
    101, 115, 105, 97, 110, 90, 32, 45, 45, 62, 10, 32, 32, 32, 32, 32, 32, 32, 32, 32, 32, 32, 32,
    32, 32, 32, 32, 60, 47, 112, 114, 111, 116, 111, 116, 121, 112, 101, 62, 10, 32, 32, 32, 32, 32,
    32, 32, 32, 32, 32, 32, 32, 32, 32, 32, 32, 60, 99, 111, 100, 101, 99, 115, 32, 116, 121, 112,
    101, 61, 34, 86, 101, 99, 116, 111, 114, 34, 32, 97, 108, 108, 111, 119, 72, 101, 116, 101, 114,
    111, 103, 101, 110, 101, 111, 117, 115, 67, 104, 105, 108, 100, 114, 101, 110, 61, 34, 49, 34,
    62, 10, 32, 32, 32, 32, 32, 32, 32, 32, 32, 32, 32, 32, 32, 32, 32, 32, 32, 32, 32, 32, 60, 33,
    45, 45, 32, 77, 105, 115, 115, 105, 110, 103, 32, 67, 111, 109, 112, 114, 101, 115, 115, 101,
    100, 86, 101, 99, 116, 111, 114, 78, 111, 100, 101, 32, 45, 45, 62, 10, 32, 32, 32, 32, 32, 32,
    32, 32, 32, 32, 32, 32, 32, 32, 32, 32, 60, 47, 99, 111, 100, 101, 99, 115, 62, 10, 32, 32, 32,
    32, 32, 32, 32, 32, 32, 32, 32, 32, 60, 47, 112, 111, 105, 110, 116, 115, 62, 10, 32, 32, 32,
    32, 32, 32, 32, 32, 60, 47, 118, 101, 99, 116, 111, 114, 67, 104, 105, 108, 100, 62, 10, 32, 32,
    32, 32, 60, 47, 100, 97, 116, 97, 51, 68, 62, 10, 60, 47, 101, 53, 55, 82, 111, 111, 116, 62>>

\* UTF-8 codes of the literal text, part 1, of create_compressed_vector_xml in src/test_data/create_test_files.py (1755 bytes)
xml_td_valid_text1 ==
  <<60, 63, 120, 109, 108, 32, 118, 101, 114, 115, 105, 111, 110, 61, 34, 49, 46, 48, 34, 32, 101,
    110, 99, 111, 100, 105, 110, 103, 61, 34, 85, 84, 70, 45, 56, 34, 63, 62, 10, 60, 101, 53, 55,
    82, 111, 111, 116, 32, 116, 121, 112, 101, 61, 34, 83, 116, 114, 117, 99, 116, 117, 114, 101,
    34, 62, 10, 32, 32, 32, 32, 60, 102, 111, 114, 109, 97, 116, 78, 97, 109, 101, 32, 116, 121,
    112, 101, 61, 34, 83, 116, 114, 105, 110, 103, 34, 62, 65, 83, 84, 77, 32, 69, 53, 55, 32, 51,
    68, 32, 73, 109, 97, 103, 105, 110, 103, 32, 68, 97, 116, 97, 32, 70, 105, 108, 101, 60, 47,
    102, 111, 114, 109, 97, 116, 78, 97, 109, 101, 62, 10, 32, 32, 32, 32, 60, 103, 117, 105, 100,
    32, 116, 121, 112, 101, 61, 34, 83, 116, 114, 105, 110, 103, 34, 62, 123, 49, 50, 51, 52, 53,
    54, 55, 56, 45, 49, 50, 51, 52, 45, 49, 50, 51, 52, 45, 49, 50, 51, 52, 45, 49, 50, 51, 52, 53,
    54, 55, 56, 57, 48, 49, 50, 125, 60, 47, 103, 117, 105, 100, 62, 10, 32, 32, 32, 32, 60, 118,
    101, 114, 115, 105, 111, 110, 77, 97, 106, 111, 114, 32, 116, 121, 112, 101, 61, 34, 73, 110,
    116, 101, 103, 101, 114, 34, 62, 49, 60, 47, 118, 101, 114, 115, 105, 111, 110, 77, 97, 106,
    111, 114, 62, 10, 32, 32, 32, 32, 60, 118, 101, 114, 115, 105, 111, 110, 77, 105, 110, 111, 114,
    32, 116, 121, 112, 101, 61, 34, 73, 110, 116, 101, 103, 101, 114, 34, 62, 48, 60, 47, 118, 101,
    114, 115, 105, 111, 110, 77, 105, 110, 111, 114, 62, 10, 32, 32, 32, 32, 60, 101, 53, 55, 76,
    105, 98, 114, 97, 114, 121, 86, 101, 114, 115, 105, 111, 110, 32, 116, 121, 112, 101, 61, 34,
    83, 116, 114, 105, 110, 103, 34, 62, 83, 112, 114, 105, 110, 116, 49, 46, 50, 45, 84, 101, 115,
    116, 60, 47, 101, 53, 55, 76, 105, 98, 114, 97, 114, 121, 86, 101, 114, 115, 105, 111, 110, 62,
    10, 32, 32, 32, 32, 60, 99, 111, 111, 114, 100, 105, 110, 97, 116, 101, 77, 101, 116, 97, 100,
    97, 116, 97, 32, 116, 121, 112, 101, 61, 34, 83, 116, 114, 105, 110, 103, 34, 62, 84, 101, 115,
    116, 32, 99, 111, 111, 114, 100, 105, 110, 97, 116, 101, 32, 115, 121, 115, 116, 101, 109, 60,
    47, 99, 111, 111, 114, 100, 105, 110, 97, 116, 101, 77, 101, 116, 97, 100, 97, 116, 97, 62, 10,
    32, 32, 32, 32, 60, 100, 97, 116, 97, 51, 68, 32, 116, 121, 112, 101, 61, 34, 86, 101, 99, 116,
    111, 114, 34, 32, 97, 108, 108, 111, 119, 72, 101, 116, 101, 114, 111, 103, 101, 110, 101, 111,
    117, 115, 67, 104, 105, 108, 100, 114, 101, 110, 61, 34, 49, 34, 62, 10, 32, 32, 32, 32, 32, 32,
    32, 32, 60, 118, 101, 99, 116, 111, 114, 67, 104, 105, 108, 100, 32, 116, 121, 112, 101, 61, 34,
    83, 116, 114, 117, 99, 116, 117, 114, 101, 34, 62, 10, 32, 32, 32, 32, 32, 32, 32, 32, 32, 32,
    32, 32, 60, 103, 117, 105, 100, 32, 116, 121, 112, 101, 61, 34, 83, 116, 114, 105, 110, 103, 34,
    62, 123, 56, 55, 54, 53, 52, 51, 50, 49, 45, 52, 51, 50, 49, 45, 52, 51, 50, 49, 45, 52, 51, 50,
    49, 45, 50, 49, 48, 57, 56, 55, 54, 53, 52, 51, 50, 49, 125, 60, 47, 103, 117, 105, 100, 62, 10,
    32, 32, 32, 32, 32, 32, 32, 32, 32, 32, 32, 32, 60, 110, 97, 109, 101, 32, 116, 121, 112, 101,
    61, 34, 83, 116, 114, 105, 110, 103, 34, 62, 84, 101, 115, 116, 32, 67, 111, 109, 112, 114, 101,
    115, 115, 101, 100, 86, 101, 99, 116, 111, 114, 32, 83, 99, 97, 110, 60, 47, 110, 97, 109, 101,
    62, 10, 32, 32, 32, 32, 32, 32, 32, 32, 32, 32, 32, 32, 60, 100, 101, 115, 99, 114, 105, 112,
    116, 105, 111, 110, 32, 116, 121, 112, 101, 61, 34, 83, 116, 114, 105, 110, 103, 34, 62, 84,
    101, 115, 116, 32, 115, 99, 97, 110, 32, 119, 105, 116, 104, 32, 67, 111, 109, 112, 114, 101,
    115, 115, 101, 100, 86, 101, 99, 116, 111, 114, 32, 115, 116, 114, 117, 99, 116, 117, 114, 101,
    60, 47, 100, 101, 115, 99, 114, 105, 112, 116, 105, 111, 110, 62, 10, 32, 32, 32, 32, 32, 32,
    32, 32, 32, 32, 32, 32, 60, 112, 111, 105, 110, 116, 115, 32, 116, 121, 112, 101, 61, 34, 67,
    111, 109, 112, 114, 101, 115, 115, 101, 100, 86, 101, 99, 116, 111, 114, 34, 32, 102, 105, 108,
    101, 79, 102, 102, 115, 101, 116, 61, 34, 48, 34, 32, 114, 101, 99, 111, 114, 100, 67, 111, 117,
    110, 116, 61, 34, 51, 34, 62, 10, 32, 32, 32, 32, 32, 32, 32, 32, 32, 32, 32, 32, 32, 32, 32,
    32, 60, 112, 114, 111, 116, 111, 116, 121, 112, 101, 32, 116, 121, 112, 101, 61, 34, 83, 116,
    114, 117, 99, 116, 117, 114, 101, 34, 62, 10, 32, 32, 32, 32, 32, 32, 32, 32, 32, 32, 32, 32,
    32, 32, 32, 32, 32, 32, 32, 32, 60, 99, 97, 114, 116, 101, 115, 105, 97, 110, 88, 32, 116, 121,
    112, 101, 61, 34, 70, 108, 111, 97, 116, 34, 32, 112, 114, 101, 99, 105, 115, 105, 111, 110, 61,
    34, 115, 105, 110, 103, 108, 101, 34, 47, 62, 10, 32, 32, 32, 32, 32, 32, 32, 32, 32, 32, 32,
    32, 32, 32, 32, 32, 32, 32, 32, 32, 60, 99, 97, 114, 116, 101, 115, 105, 97, 110, 89, 32, 116,
    121, 112, 101, 61, 34, 70, 108, 111, 97, 116, 34, 32, 112, 114, 101, 99, 105, 115, 105, 111,
    110, 61, 34, 115, 105, 110, 103, 108, 101, 34, 47, 62, 10, 32, 32, 32, 32, 32, 32, 32, 32, 32,
    32, 32, 32, 32, 32, 32, 32, 32, 32, 32, 32, 60, 99, 97, 114, 116, 101, 115, 105, 97, 110, 90,
    32, 116, 121, 112, 101, 61, 34, 70, 108, 111, 97, 116, 34, 32, 112, 114, 101, 99, 105, 115, 105,
    111, 110, 61, 34, 115, 105, 110, 103, 108, 101, 34, 47, 62, 10, 32, 32, 32, 32, 32, 32, 32, 32,
    32, 32, 32, 32, 32, 32, 32, 32, 60, 47, 112, 114, 111, 116, 111, 116, 121, 112, 101, 62, 10, 32,
    32, 32, 32, 32, 32, 32, 32, 32, 32, 32, 32, 32, 32, 32, 32, 60, 99, 111, 100, 101, 99, 115, 32,
    116, 121, 112, 101, 61, 34, 86, 101, 99, 116, 111, 114, 34, 32, 97, 108, 108, 111, 119, 72, 101,
    116, 101, 114, 111, 103, 101, 110, 101, 111, 117, 115, 67, 104, 105, 108, 100, 114, 101, 110,
    61, 34, 49, 34, 62, 10, 32, 32, 32, 32, 32, 32, 32, 32, 32, 32, 32, 32, 32, 32, 32, 32, 32, 32,
    32, 32, 60, 118, 101, 99, 116, 111, 114, 67, 104, 105, 108, 100, 32, 116, 121, 112, 101, 61, 34,
    67, 111, 109, 112, 114, 101, 115, 115, 101, 100, 86, 101, 99, 116, 111, 114, 78, 111, 100, 101,
    34, 32, 114, 101, 99, 111, 114, 100, 67, 111, 117, 110, 116, 61, 34, 51, 34, 32, 102, 105, 108,
    101, 79, 102, 102, 115, 101, 116, 61, 34, 50, 48, 52, 56, 34, 62, 10, 32, 32, 32, 32, 32, 32,
    32, 32, 32, 32, 32, 32, 32, 32, 32, 32, 32, 32, 32, 32, 32, 32, 32, 32, 60, 112, 114, 111, 116,
    111, 116, 121, 112, 101, 32, 116, 121, 112, 101, 61, 34, 83, 116, 114, 117, 99, 116, 117, 114,
    101, 34, 62, 10, 32, 32, 32, 32, 32, 32, 32, 32, 32, 32, 32, 32, 32, 32, 32, 32, 32, 32, 32, 32,
    32, 32, 32, 32, 32, 32, 32, 32, 60, 99, 97, 114, 116, 101, 115, 105, 97, 110, 88, 32, 116, 121,
    112, 101, 61, 34, 70, 108, 111, 97, 116, 34, 32, 112, 114, 101, 99, 105, 115, 105, 111, 110, 61,
    34, 115, 105, 110, 103, 108, 101, 34, 47, 62, 10, 32, 32, 32, 32, 32, 32, 32, 32, 32, 32, 32,
    32, 32, 32, 32, 32, 32, 32, 32, 32, 32, 32, 32, 32, 32, 32, 32, 32, 60, 99, 97, 114, 116, 101,
    115, 105, 97, 110, 89, 32, 116, 121, 112, 101, 61, 34, 70, 108, 111, 97, 116, 34, 32, 112, 114,
    101, 99, 105, 115, 105, 111, 110, 61, 34, 115, 105, 110, 103, 108, 101, 34, 47, 62, 10, 32, 32,
    32, 32, 32, 32, 32, 32, 32, 32, 32, 32, 32, 32, 32, 32, 32, 32, 32, 32, 32, 32, 32, 32, 32, 32,
    32, 32, 60, 99, 97, 114, 116, 101, 115, 105, 97, 110, 90, 32, 116, 121, 112, 101, 61, 34, 70,
    108, 111, 97, 116, 34, 32, 112, 114, 101, 99, 105, 115, 105, 111, 110, 61, 34, 115, 105, 110,
    103, 108, 101, 34, 47, 62, 10, 32, 32, 32, 32, 32, 32, 32, 32, 32, 32, 32, 32, 32, 32, 32, 32,
    32, 32, 32, 32, 32, 32, 32, 32, 60, 47, 112, 114, 111, 116, 111, 116, 121, 112, 101, 62, 10, 32,
    32, 32, 32, 32, 32, 32, 32, 32, 32, 32, 32, 32, 32, 32, 32, 32, 32, 32, 32, 60, 47, 118, 101,
    99, 116, 111, 114, 67, 104, 105, 108, 100, 62, 10, 32, 32, 32, 32, 32, 32, 32, 32, 32, 32, 32,
    32, 32, 32, 32, 32, 60, 47, 99, 111, 100, 101, 99, 115, 62, 10, 32, 32, 32, 32, 32, 32, 32, 32,
    32, 32, 32, 32, 60, 47, 112, 111, 105, 110, 116, 115, 62, 10, 32, 32, 32, 32, 32, 32, 32, 32,
    60, 47, 118, 101, 99, 116, 111, 114, 67, 104, 105, 108, 100, 62, 10, 32, 32, 32, 32, 60, 47,
    100, 97, 116, 97, 51, 68, 62, 10, 60, 47, 101, 53, 55, 82, 111, 111, 116, 62>>

\* UTF-8 codes of the literal text, part 1, of create_malformed_compressed_vector_xml in src/test_data/create_test_files.py (1506 bytes)
xml_td_malformed_text1 ==
  <<60, 63, 120, 109, 108, 32, 118, 101, 114, 115, 105, 111, 110, 61, 34, 49, 46, 48, 34, 32, 101,
    110, 99, 111, 100, 105, 110, 103, 61, 34, 85, 84, 70, 45, 56, 34, 63, 62, 10, 60, 101, 53, 55,
    82, 111, 111, 116, 32, 116, 121, 112, 101, 61, 34, 83, 116, 114, 117, 99, 116, 117, 114, 101,
    34, 62, 10, 32, 32, 32, 32, 60, 102, 111, 114, 109, 97, 116, 78, 97, 109, 101, 32, 116, 121,
    112, 101, 61, 34, 83, 116, 114, 105, 110, 103, 34, 62, 65, 83, 84, 77, 32, 69, 53, 55, 32, 51,
    68, 32, 73, 109, 97, 103, 105, 110, 103, 32, 68, 97, 116, 97, 32, 70, 105, 108, 101, 60, 47,
    102, 111, 114, 109, 97, 116, 78, 97, 109, 101, 62, 10, 32, 32, 32, 32, 60, 103, 117, 105, 100,
    32, 116, 121, 112, 101, 61, 34, 83, 116, 114, 105, 110, 103, 34, 62, 123, 49, 50, 51, 52, 53,
    54, 55, 56, 45, 49, 50, 51, 52, 45, 49, 50, 51, 52, 45, 49, 50, 51, 52, 45, 49, 50, 51, 52, 53,
    54, 55, 56, 57, 48, 49, 50, 125, 60, 47, 103, 117, 105, 100, 62, 10, 32, 32, 32, 32, 60, 118,
    101, 114, 115, 105, 111, 110, 77, 97, 106, 111, 114, 32, 116, 121, 112, 101, 61, 34, 73, 110,
    116, 101, 103, 101, 114, 34, 62, 49, 60, 47, 118, 101, 114, 115, 105, 111, 110, 77, 97, 106,
    111, 114, 62, 10, 32, 32, 32, 32, 60, 118, 101, 114, 115, 105, 111, 110, 77, 105, 110, 111, 114,
    32, 116, 121, 112, 101, 61, 34, 73, 110, 116, 101, 103, 101, 114, 34, 62, 48, 60, 47, 118, 101,
    114, 115, 105, 111, 110, 77, 105, 110, 111, 114, 62, 10, 32, 32, 32, 32, 60, 100, 97, 116, 97,
    51, 68, 32, 116, 121, 112, 101, 61, 34, 86, 101, 99, 116, 111, 114, 34, 32, 97, 108, 108, 111,
    119, 72, 101, 116, 101, 114, 111, 103, 101, 110, 101, 111, 117, 115, 67, 104, 105, 108, 100,
    114, 101, 110, 61, 34, 49, 34, 62, 10, 32, 32, 32, 32, 32, 32, 32, 32, 60, 118, 101, 99, 116,
    111, 114, 67, 104, 105, 108, 100, 32, 116, 121, 112, 101, 61, 34, 83, 116, 114, 117, 99, 116,
    117, 114, 101, 34, 62, 10, 32, 32, 32, 32, 32, 32, 32, 32, 32, 32, 32, 32, 60, 103, 117, 105,
    100, 32, 116, 121, 112, 101, 61, 34, 83, 116, 114, 105, 110, 103, 34, 62, 123, 56, 55, 54, 53,
    52, 51, 50, 49, 45, 52, 51, 50, 49, 45, 52, 51, 50, 49, 45, 52, 51, 50, 49, 45, 50, 49, 48, 57,
    56, 55, 54, 53, 52, 51, 50, 49, 125, 60, 47, 103, 117, 105, 100, 62, 10, 32, 32, 32, 32, 32, 32,
    32, 32, 32, 32, 32, 32, 60, 110, 97, 109, 101, 32, 116, 121, 112, 101, 61, 34, 83, 116, 114,
    105, 110, 103, 34, 62, 84, 101, 115, 116, 32, 77, 97, 108, 102, 111, 114, 109, 101, 100, 32, 67,
    111, 109, 112, 114, 101, 115, 115, 101, 100, 86, 101, 99, 116, 111, 114, 60, 47, 110, 97, 109,
    101, 62, 10, 32, 32, 32, 32, 32, 32, 32, 32, 32, 32, 32, 32, 60, 112, 111, 105, 110, 116, 115,
    32, 116, 121, 112, 101, 61, 34, 67, 111, 109, 112, 114, 101, 115, 115, 101, 100, 86, 101, 99,
    116, 111, 114, 34, 32, 102, 105, 108, 101, 79, 102, 102, 115, 101, 116, 61, 34, 48, 34, 62, 10,
    32, 32, 32, 32, 32, 32, 32, 32, 32, 32, 32, 32, 32, 32, 32, 32, 60, 112, 114, 111, 116, 111,
    116, 121, 112, 101, 32, 116, 121, 112, 101, 61, 34, 83, 116, 114, 117, 99, 116, 117, 114, 101,
    34, 62, 10, 32, 32, 32, 32, 32, 32, 32, 32, 32, 32, 32, 32, 32, 32, 32, 32, 32, 32, 32, 32, 60,
    99, 97, 114, 116, 101, 115, 105, 97, 110, 88, 32, 116, 121, 112, 101, 61, 34, 70, 108, 111, 97,
    116, 34, 32, 112, 114, 101, 99, 105, 115, 105, 111, 110, 61, 34, 115, 105, 110, 103, 108, 101,
    34, 47, 62, 10, 32, 32, 32, 32, 32, 32, 32, 32, 32, 32, 32, 32, 32, 32, 32, 32, 32, 32, 32, 32,
    60, 99, 97, 114, 116, 101, 115, 105, 97, 110, 89, 32, 116, 121, 112, 101, 61, 34, 70, 108, 111,
    97, 116, 34, 32, 112, 114, 101, 99, 105, 115, 105, 111, 110, 61, 34, 115, 105, 110, 103, 108,
    101, 34, 47, 62, 10, 32, 32, 32, 32, 32, 32, 32, 32, 32, 32, 32, 32, 32, 32, 32, 32, 32, 32, 32,
    32, 60, 99, 97, 114, 116, 101, 115, 105, 97, 110, 90, 32, 116, 121, 112, 101, 61, 34, 70, 108,
    111, 97, 116, 34, 32, 112, 114, 101, 99, 105, 115, 105, 111, 110, 61, 34, 115, 105, 110, 103,
    108, 101, 34, 47, 62, 10, 32, 32, 32, 32, 32, 32, 32, 32, 32, 32, 32, 32, 32, 32, 32, 32, 60,
    47, 112, 114, 111, 116, 111, 116, 121, 112, 101, 62, 10, 32, 32, 32, 32, 32, 32, 32, 32, 32, 32,
    32, 32, 32, 32, 32, 32, 60, 99, 111, 100, 101, 99, 115, 32, 116, 121, 112, 101, 61, 34, 86, 101,
    99, 116, 111, 114, 34, 32, 97, 108, 108, 111, 119, 72, 101, 116, 101, 114, 111, 103, 101, 110,
    101, 111, 117, 115, 67, 104, 105, 108, 100, 114, 101, 110, 61, 34, 49, 34, 62, 10, 32, 32, 32,
    32, 32, 32, 32, 32, 32, 32, 32, 32, 32, 32, 32, 32, 32, 32, 32, 32, 60, 118, 101, 99, 116, 111,
    114, 67, 104, 105, 108, 100, 32, 116, 121, 112, 101, 61, 34, 67, 111, 109, 112, 114, 101, 115,
    115, 101, 100, 86, 101, 99, 116, 111, 114, 78, 111, 100, 101, 34, 62, 10, 32, 32, 32, 32, 32,
    32, 32, 32, 32, 32, 32, 32, 32, 32, 32, 32, 32, 32, 32, 32, 32, 32, 32, 32, 60, 33, 45, 45, 32,
    77, 105, 115, 115, 105, 110, 103, 32, 114, 101, 99, 111, 114, 100, 67, 111, 117, 110, 116, 32,
    97, 116, 116, 114, 105, 98, 117, 116, 101, 32, 45, 45, 62, 10, 32, 32, 32, 32, 32, 32, 32, 32,
    32, 32, 32, 32, 32, 32, 32, 32, 32, 32, 32, 32, 32, 32, 32, 32, 60, 112, 114, 111, 116, 111,
    116, 121, 112, 101, 32, 116, 121, 112, 101, 61, 34, 83, 116, 114, 117, 99, 116, 117, 114, 101,
    34, 62, 10, 32, 32, 32, 32, 32, 32, 32, 32, 32, 32, 32, 32, 32, 32, 32, 32, 32, 32, 32, 32, 32,
    32, 32, 32, 32, 32, 32, 32, 60, 99, 97, 114, 116, 101, 115, 105, 97, 110, 88, 32, 116, 121, 112,
    101, 61, 34, 70, 108, 111, 97, 116, 34, 32, 112, 114, 101, 99, 105, 115, 105, 111, 110, 61, 34,
    115, 105, 110, 103, 108, 101, 34, 47, 62, 10, 32, 32, 32, 32, 32, 32, 32, 32, 32, 32, 32, 32,
    32, 32, 32, 32, 32, 32, 32, 32, 32, 32, 32, 32, 32, 32, 32, 32, 60, 99, 97, 114, 116, 101, 115,
    105, 97, 110, 89, 32, 116, 121, 112, 101, 61, 34, 70, 108, 111, 97, 116, 34, 32, 112, 114, 101,
    99, 105, 115, 105, 111, 110, 61, 34, 115, 105, 110, 103, 108, 101, 34, 47, 62, 10, 32, 32, 32,
    32, 32, 32, 32, 32, 32, 32, 32, 32, 32, 32, 32, 32, 32, 32, 32, 32, 32, 32, 32, 32, 32, 32, 32,
    32, 60, 33, 45, 45, 32, 77, 105, 115, 115, 105, 110, 103, 32, 99, 97, 114, 116, 101, 115, 105,
    97, 110, 90, 32, 45, 45, 62, 10, 32, 32, 32, 32, 32, 32, 32, 32, 32, 32, 32, 32, 32, 32, 32, 32,
    32, 32, 32, 32, 32, 32, 32, 32, 60, 47, 112, 114, 111, 116, 111, 116, 121, 112, 101, 62, 10, 32,
    32, 32, 32, 32, 32, 32, 32, 32, 32, 32, 32, 32, 32, 32, 32, 32, 32, 32, 32, 60, 47, 118, 101,
    99, 116, 111, 114, 67, 104, 105, 108, 100, 62, 10, 32, 32, 32, 32, 32, 32, 32, 32, 32, 32, 32,
    32, 32, 32, 32, 32, 60, 47, 99, 111, 100, 101, 99, 115, 62, 10, 32, 32, 32, 32, 32, 32, 32, 32,
    32, 32, 32, 32, 60, 47, 112, 111, 105, 110, 116, 115, 62, 10, 32, 32, 32, 32, 32, 32, 32, 32,
    60, 47, 118, 101, 99, 116, 111, 114, 67, 104, 105, 108, 100, 62, 10, 32, 32, 32, 32, 60, 47,
    100, 97, 116, 97, 51, 68, 62, 10, 60, 47, 101, 53, 55, 82, 111, 111, 116, 62>>

\* UTF-8 codes of the literal text, part 1, of create_e57_with_bitpack_codec in src/test_data/create_test_e57_codec_fixed.py (893 bytes)
xml_bitpack_text1 ==
  <<60, 63, 120, 109, 108, 32, 118, 101, 114, 115, 105, 111, 110, 61, 34, 49, 46, 48, 34, 32, 101,
    110, 99, 111, 100, 105, 110, 103, 61, 34, 85, 84, 70, 45, 56, 34, 63, 62, 10, 60, 101, 53, 55,
    82, 111, 111, 116, 32, 116, 121, 112, 101, 61, 34, 83, 116, 114, 117, 99, 116, 117, 114, 101,
    34, 32, 120, 109, 108, 110, 115, 61, 34, 104, 116, 116, 112, 58, 47, 47, 119, 119, 119, 46, 97,
    115, 116, 109, 46, 111, 114, 103, 47, 67, 79, 77, 77, 73, 84, 47, 69, 53, 55, 47, 50, 48, 49,
    48, 45, 101, 53, 55, 45, 118, 49, 46, 48, 34, 62, 10, 32, 32, 32, 32, 60, 102, 111, 114, 109,
    97, 116, 78, 97, 109, 101, 32, 116, 121, 112, 101, 61, 34, 83, 116, 114, 105, 110, 103, 34, 62,
    65, 83, 84, 77, 32, 69, 53, 55, 32, 51, 68, 32, 73, 109, 97, 103, 105, 110, 103, 32, 68, 97,
    116, 97, 32, 70, 105, 108, 101, 60, 47, 102, 111, 114, 109, 97, 116, 78, 97, 109, 101, 62, 10,
    32, 32, 32, 32, 60, 103, 117, 105, 100, 32, 116, 121, 112, 101, 61, 34, 83, 116, 114, 105, 110,
    103, 34, 62, 123, 49, 50, 51, 52, 53, 54, 55, 56, 45, 49, 50, 51, 52, 45, 49, 50, 51, 52, 45,
    49, 50, 51, 52, 45, 49, 50, 51, 52, 53, 54, 55, 56, 57, 65, 66, 67, 125, 60, 47, 103, 117, 105,
    100, 62, 10, 32, 32, 32, 32, 60, 118, 101, 114, 115, 105, 111, 110, 77, 97, 106, 111, 114, 32,
    116, 121, 112, 101, 61, 34, 73, 110, 116, 101, 103, 101, 114, 34, 62, 49, 60, 47, 118, 101, 114,
    115, 105, 111, 110, 77, 97, 106, 111, 114, 62, 10, 32, 32, 32, 32, 60, 118, 101, 114, 115, 105,
    111, 110, 77, 105, 110, 111, 114, 32, 116, 121, 112, 101, 61, 34, 73, 110, 116, 101, 103, 101,
    114, 34, 62, 48, 60, 47, 118, 101, 114, 115, 105, 111, 110, 77, 105, 110, 111, 114, 62, 10, 32,
    32, 32, 32, 60, 101, 53, 55, 76, 105, 98, 114, 97, 114, 121, 86, 101, 114, 115, 105, 111, 110,
    32, 116, 121, 112, 101, 61, 34, 83, 116, 114, 105, 110, 103, 34, 62, 83, 112, 114, 105, 110,
    116, 50, 46, 49, 45, 84, 101, 115, 116, 60, 47, 101, 53, 55, 76, 105, 98, 114, 97, 114, 121, 86,
    101, 114, 115, 105, 111, 110, 62, 10, 32, 32, 32, 32, 60, 99, 111, 111, 114, 100, 105, 110, 97,
    116, 101, 77, 101, 116, 97, 100, 97, 116, 97, 32, 116, 121, 112, 101, 61, 34, 83, 116, 114, 105,
    110, 103, 34, 62, 84, 101, 115, 116, 32, 99, 111, 111, 114, 100, 105, 110, 97, 116, 101, 32,
    115, 121, 115, 116, 101, 109, 60, 47, 99, 111, 111, 114, 100, 105, 110, 97, 116, 101, 77, 101,
    116, 97, 100, 97, 116, 97, 62, 10, 32, 32, 32, 32, 60, 100, 97, 116, 97, 51, 68, 32, 116, 121,
    112, 101, 61, 34, 86, 101, 99, 116, 111, 114, 34, 32, 97, 108, 108, 111, 119, 72, 101, 116, 101,
    114, 111, 103, 101, 110, 101, 111, 117, 115, 67, 104, 105, 108, 100, 114, 101, 110, 61, 34, 49,
    34, 62, 10, 32, 32, 32, 32, 32, 32, 32, 32, 60, 118, 101, 99, 116, 111, 114, 67, 104, 105, 108,
    100, 32, 116, 121, 112, 101, 61, 34, 83, 116, 114, 117, 99, 116, 117, 114, 101, 34, 62, 10, 32,
    32, 32, 32, 32, 32, 32, 32, 32, 32, 32, 32, 60, 103, 117, 105, 100, 32, 116, 121, 112, 101, 61,
    34, 83, 116, 114, 105, 110, 103, 34, 62, 123, 56, 55, 54, 53, 52, 51, 50, 49, 45, 52, 51, 50,
    49, 45, 52, 51, 50, 49, 45, 52, 51, 50, 49, 45, 50, 49, 48, 57, 56, 55, 54, 53, 52, 51, 50, 49,
    125, 60, 47, 103, 117, 105, 100, 62, 10, 32, 32, 32, 32, 32, 32, 32, 32, 32, 32, 32, 32, 60,
    110, 97, 109, 101, 32, 116, 121, 112, 101, 61, 34, 83, 116, 114, 105, 110, 103, 34, 62, 84, 101,
    115, 116, 32, 80, 111, 105, 110, 116, 32, 67, 108, 111, 117, 100, 60, 47, 110, 97, 109, 101, 62,
    10, 32, 32, 32, 32, 32, 32, 32, 32, 32, 32, 32, 32, 60, 100, 101, 115, 99, 114, 105, 112, 116,
    105, 111, 110, 32, 116, 121, 112, 101, 61, 34, 83, 116, 114, 105, 110, 103, 34, 62, 84, 101,
    115, 116, 32, 112, 111, 105, 110, 116, 32, 99, 108, 111, 117, 100, 32, 100, 97, 116, 97, 32,
    102, 111, 114, 32, 83, 112, 114, 105, 110, 116, 32, 50, 46, 49, 60, 47, 100, 101, 115, 99, 114,
    105, 112, 116, 105, 111, 110, 62, 10, 32, 32, 32, 32, 32, 32, 32, 32, 32, 32, 32, 32, 60, 112,
    111, 105, 110, 116, 115, 32, 116, 121, 112, 101, 61, 34, 67, 111, 109, 112, 114, 101, 115, 115,
    101, 100, 86, 101, 99, 116, 111, 114, 34, 32, 102, 105, 108, 101, 79, 102, 102, 115, 101, 116,
    61, 34>>

\* UTF-8 codes of the literal text, part 2, of create_e57_with_bitpack_codec in src/test_data/create_test_e57_codec_fixed.py (726 bytes)
xml_bitpack_text2 ==
  <<34, 32, 114, 101, 99, 111, 114, 100, 67, 111, 117, 110, 116, 61, 34, 51, 34, 62, 10, 32, 32, 32,
    32, 32, 32, 32, 32, 32, 32, 32, 32, 32, 32, 32, 32, 60, 112, 114, 111, 116, 111, 116, 121, 112,
    101, 32, 116, 121, 112, 101, 61, 34, 83, 116, 114, 117, 99, 116, 117, 114, 101, 34, 62, 10, 32,
    32, 32, 32, 32, 32, 32, 32, 32, 32, 32, 32, 32, 32, 32, 32, 32, 32, 32, 32, 60, 99, 97, 114,
    116, 101, 115, 105, 97, 110, 88, 32, 116, 121, 112, 101, 61, 34, 70, 108, 111, 97, 116, 34, 32,
    112, 114, 101, 99, 105, 115, 105, 111, 110, 61, 34, 115, 105, 110, 103, 108, 101, 34, 47, 62,
    10, 32, 32, 32, 32, 32, 32, 32, 32, 32, 32, 32, 32, 32, 32, 32, 32, 32, 32, 32, 32, 60, 99, 97,
    114, 116, 101, 115, 105, 97, 110, 89, 32, 116, 121, 112, 101, 61, 34, 70, 108, 111, 97, 116, 34,
    32, 112, 114, 101, 99, 105, 115, 105, 111, 110, 61, 34, 115, 105, 110, 103, 108, 101, 34, 47,
    62, 10, 32, 32, 32, 32, 32, 32, 32, 32, 32, 32, 32, 32, 32, 32, 32, 32, 32, 32, 32, 32, 60, 99,
    97, 114, 116, 101, 115, 105, 97, 110, 90, 32, 116, 121, 112, 101, 61, 34, 70, 108, 111, 97, 116,
    34, 32, 112, 114, 101, 99, 105, 115, 105, 111, 110, 61, 34, 115, 105, 110, 103, 108, 101, 34,
    47, 62, 10, 32, 32, 32, 32, 32, 32, 32, 32, 32, 32, 32, 32, 32, 32, 32, 32, 60, 47, 112, 114,
    111, 116, 111, 116, 121, 112, 101, 62, 10, 32, 32, 32, 32, 32, 32, 32, 32, 32, 32, 32, 32, 32,
    32, 32, 32, 60, 99, 111, 100, 101, 99, 115, 32, 116, 121, 112, 101, 61, 34, 86, 101, 99, 116,
    111, 114, 34, 62, 10, 32, 32, 32, 32, 32, 32, 32, 32, 32, 32, 32, 32, 32, 32, 32, 32, 32, 32,
    32, 32, 60, 118, 101, 99, 116, 111, 114, 32, 116, 121, 112, 101, 61, 34, 67, 111, 109, 112, 114,
    101, 115, 115, 101, 100, 86, 101, 99, 116, 111, 114, 78, 111, 100, 101, 34, 62, 10, 32, 32, 32,
    32, 32, 32, 32, 32, 32, 32, 32, 32, 32, 32, 32, 32, 32, 32, 32, 32, 32, 32, 32, 32, 60, 98, 105,
    116, 80, 97, 99, 107, 67, 111, 100, 101, 99, 32, 116, 121, 112, 101, 61, 34, 83, 116, 114, 117,
    99, 116, 117, 114, 101, 34, 47, 62, 10, 32, 32, 32, 32, 32, 32, 32, 32, 32, 32, 32, 32, 32, 32,
    32, 32, 32, 32, 32, 32, 32, 32, 32, 32, 60, 114, 101, 99, 111, 114, 100, 67, 111, 117, 110, 116,
    32, 116, 121, 112, 101, 61, 34, 73, 110, 116, 101, 103, 101, 114, 34, 62, 51, 60, 47, 114, 101,
    99, 111, 114, 100, 67, 111, 117, 110, 116, 62, 10, 32, 32, 32, 32, 32, 32, 32, 32, 32, 32, 32,
    32, 32, 32, 32, 32, 32, 32, 32, 32, 32, 32, 32, 32, 60, 98, 105, 110, 97, 114, 121, 83, 101, 99,
    116, 105, 111, 110, 32, 116, 121, 112, 101, 61, 34, 83, 116, 114, 105, 110, 103, 34, 62, 116,
    101, 115, 116, 95, 98, 105, 110, 97, 114, 121, 95, 115, 101, 99, 116, 105, 111, 110, 60, 47, 98,
    105, 110, 97, 114, 121, 83, 101, 99, 116, 105, 111, 110, 62, 10, 32, 32, 32, 32, 32, 32, 32, 32,
    32, 32, 32, 32, 32, 32, 32, 32, 32, 32, 32, 32, 60, 47, 118, 101, 99, 116, 111, 114, 62, 10, 32,
    32, 32, 32, 32, 32, 32, 32, 32, 32, 32, 32, 32, 32, 32, 32, 60, 47, 99, 111, 100, 101, 99, 115,
    62, 10, 32, 32, 32, 32, 32, 32, 32, 32, 32, 32, 32, 32, 60, 47, 112, 111, 105, 110, 116, 115,
    62, 10, 32, 32, 32, 32, 32, 32, 32, 32, 60, 47, 118, 101, 99, 116, 111, 114, 67, 104, 105, 108,
    100, 62, 10, 32, 32, 32, 32, 60, 47, 100, 97, 116, 97, 51, 68, 62, 10, 60, 47, 101, 53, 55, 82,
    111, 111, 116, 62>>

\* UTF-8 codes of the literal text, part 1, of create_e57_with_unsupported_codec in src/test_data/create_test_e57_codec_fixed.py (1054 bytes)
xml_unsupported_text1 ==
  <<60, 63, 120, 109, 108, 32, 118, 101, 114, 115, 105, 111, 110, 61, 34, 49, 46, 48, 34, 32, 101,
    110, 99, 111, 100, 105, 110, 103, 61, 34, 85, 84, 70, 45, 56, 34, 63, 62, 10, 60, 101, 53, 55,
    82, 111, 111, 116, 32, 116, 121, 112, 101, 61, 34, 83, 116, 114, 117, 99, 116, 117, 114, 101,
    34, 32, 120, 109, 108, 110, 115, 61, 34, 104, 116, 116, 112, 58, 47, 47, 119, 119, 119, 46, 97,
    115, 116, 109, 46, 111, 114, 103, 47, 67, 79, 77, 77, 73, 84, 47, 69, 53, 55, 47, 50, 48, 49,
    48, 45, 101, 53, 55, 45, 118, 49, 46, 48, 34, 62, 10, 32, 32, 32, 32, 60, 102, 111, 114, 109,
    97, 116, 78, 97, 109, 101, 32, 116, 121, 112, 101, 61, 34, 83, 116, 114, 105, 110, 103, 34, 62,
    65, 83, 84, 77, 32, 69, 53, 55, 32, 51, 68, 32, 73, 109, 97, 103, 105, 110, 103, 32, 68, 97,
    116, 97, 32, 70, 105, 108, 101, 60, 47, 102, 111, 114, 109, 97, 116, 78, 97, 109, 101, 62, 10,
    32, 32, 32, 32, 60, 100, 97, 116, 97, 51, 68, 32, 116, 121, 112, 101, 61, 34, 86, 101, 99, 116,
    111, 114, 34, 32, 97, 108, 108, 111, 119, 72, 101, 116, 101, 114, 111, 103, 101, 110, 101, 111,
    117, 115, 67, 104, 105, 108, 100, 114, 101, 110, 61, 34, 49, 34, 62, 10, 32, 32, 32, 32, 32, 32,
    32, 32, 60, 118, 101, 99, 116, 111, 114, 67, 104, 105, 108, 100, 32, 116, 121, 112, 101, 61, 34,
    83, 116, 114, 117, 99, 116, 117, 114, 101, 34, 62, 10, 32, 32, 32, 32, 32, 32, 32, 32, 32, 32,
    32, 32, 60, 112, 111, 105, 110, 116, 115, 32, 116, 121, 112, 101, 61, 34, 67, 111, 109, 112,
    114, 101, 115, 115, 101, 100, 86, 101, 99, 116, 111, 114, 34, 32, 114, 101, 99, 111, 114, 100,
    67, 111, 117, 110, 116, 61, 34, 51, 34, 62, 10, 32, 32, 32, 32, 32, 32, 32, 32, 32, 32, 32, 32,
    32, 32, 32, 32, 60, 112, 114, 111, 116, 111, 116, 121, 112, 101, 32, 116, 121, 112, 101, 61, 34,
    83, 116, 114, 117, 99, 116, 117, 114, 101, 34, 62, 10, 32, 32, 32, 32, 32, 32, 32, 32, 32, 32,
    32, 32, 32, 32, 32, 32, 32, 32, 32, 32, 60, 99, 97, 114, 116, 101, 115, 105, 97, 110, 88, 32,
    116, 121, 112, 101, 61, 34, 70, 108, 111, 97, 116, 34, 32, 112, 114, 101, 99, 105, 115, 105,
    111, 110, 61, 34, 115, 105, 110, 103, 108, 101, 34, 47, 62, 10, 32, 32, 32, 32, 32, 32, 32, 32,
    32, 32, 32, 32, 32, 32, 32, 32, 32, 32, 32, 32, 60, 99, 97, 114, 116, 101, 115, 105, 97, 110,
    89, 32, 116, 121, 112, 101, 61, 34, 70, 108, 111, 97, 116, 34, 32, 112, 114, 101, 99, 105, 115,
    105, 111, 110, 61, 34, 115, 105, 110, 103, 108, 101, 34, 47, 62, 10, 32, 32, 32, 32, 32, 32, 32,
    32, 32, 32, 32, 32, 32, 32, 32, 32, 32, 32, 32, 32, 60, 99, 97, 114, 116, 101, 115, 105, 97,
    110, 90, 32, 116, 121, 112, 101, 61, 34, 70, 108, 111, 97, 116, 34, 32, 112, 114, 101, 99, 105,
    115, 105, 111, 110, 61, 34, 115, 105, 110, 103, 108, 101, 34, 47, 62, 10, 32, 32, 32, 32, 32,
    32, 32, 32, 32, 32, 32, 32, 32, 32, 32, 32, 60, 47, 112, 114, 111, 116, 111, 116, 121, 112, 101,
    62, 10, 32, 32, 32, 32, 32, 32, 32, 32, 32, 32, 32, 32, 32, 32, 32, 32, 60, 99, 111, 100, 101,
    99, 115, 32, 116, 121, 112, 101, 61, 34, 86, 101, 99, 116, 111, 114, 34, 62, 10, 32, 32, 32, 32,
    32, 32, 32, 32, 32, 32, 32, 32, 32, 32, 32, 32, 32, 32, 32, 32, 60, 118, 101, 99, 116, 111, 114,
    32, 116, 121, 112, 101, 61, 34, 67, 111, 109, 112, 114, 101, 115, 115, 101, 100, 86, 101, 99,
    116, 111, 114, 78, 111, 100, 101, 34, 62, 10, 32, 32, 32, 32, 32, 32, 32, 32, 32, 32, 32, 32,
    32, 32, 32, 32, 32, 32, 32, 32, 32, 32, 32, 32, 60, 122, 76, 105, 98, 67, 111, 100, 101, 99, 32,
    116, 121, 112, 101, 61, 34, 83, 116, 114, 117, 99, 116, 117, 114, 101, 34, 47, 62, 10, 32, 32,
    32, 32, 32, 32, 32, 32, 32, 32, 32, 32, 32, 32, 32, 32, 32, 32, 32, 32, 32, 32, 32, 32, 60, 114,
    101, 99, 111, 114, 100, 67, 111, 117, 110, 116, 32, 116, 121, 112, 101, 61, 34, 73, 110, 116,
    101, 103, 101, 114, 34, 62, 51, 60, 47, 114, 101, 99, 111, 114, 100, 67, 111, 117, 110, 116, 62,
    10, 32, 32, 32, 32, 32, 32, 32, 32, 32, 32, 32, 32, 32, 32, 32, 32, 32, 32, 32, 32, 32, 32, 32,
    32, 60, 98, 105, 110, 97, 114, 121, 83, 101, 99, 116, 105, 111, 110, 32, 116, 121, 112, 101, 61,
    34, 83, 116, 114, 105, 110, 103, 34, 62, 116, 101, 115, 116, 95, 98, 105, 110, 97, 114, 121, 95,
    115, 101, 99, 116, 105, 111, 110, 60, 47, 98, 105, 110, 97, 114, 121, 83, 101, 99, 116, 105,
    111, 110, 62, 10, 32, 32, 32, 32, 32, 32, 32, 32, 32, 32, 32, 32, 32, 32, 32, 32, 32, 32, 32,
    32, 60, 47, 118, 101, 99, 116, 111, 114, 62, 10, 32, 32, 32, 32, 32, 32, 32, 32, 32, 32, 32, 32,
    32, 32, 32, 32, 60, 47, 99, 111, 100, 101, 99, 115, 62, 10, 32, 32, 32, 32, 32, 32, 32, 32, 32,
    32, 32, 32, 60, 47, 112, 111, 105, 110, 116, 115, 62, 10, 32, 32, 32, 32, 32, 32, 32, 32, 60,
    47, 118, 101, 99, 116, 111, 114, 67, 104, 105, 108, 100, 62, 10, 32, 32, 32, 32, 60, 47, 100,
    97, 116, 97, 51, 68, 62, 10, 60, 47, 101, 53, 55, 82, 111, 111, 116, 62>>
(***************************************************************************)
(* The builders' pure parts.                                               *)
(***************************************************************************)
\* src/create_test_e57_files.py: create_e57_header returns (header, xml_offset)
create_e57_header_root ==
  [header |-> Signature \o pack_I(1) \o pack_I(0) \o pack_Q(0) \o pack_Q(48)
                \o pack_Q(0) \o pack_Q(1024),
   xml_offset |-> 48]

\* src/test_data/create_test_files.py: create_e57_header returns header
create_e57_header_td ==
  Signature \o pack_I(1) \o pack_I(0) \o pack_Q(0) \o pack_Q(48)
    \o pack_Q(0) \o pack_Q(1024)

\* src/create_test_e57_files.py: create_compressed_vector_xml
create_compressed_vector_xml_root ==
  xml_root_valid_text1 \o Str(48 + 1200) \o xml_root_valid_text2
    \o Str(48 + 1200) \o xml_root_valid_text3

\* the document without its last 10 bytes, the end tag of e57Root
create_malformed_xml_root_unclosed ==
  xml_root_malformed_text1 \o Str(48 + 800)
    \o SubSeq(xml_root_malformed_text2, 1, Len(xml_root_malformed_text2) - 10)

\* src/create_test_e57_files.py: create_malformed_xml
create_malformed_xml_root ==
  xml_root_malformed_text1 \o Str(48 + 800) \o xml_root_malformed_text2

\* the document whose codec entry lacks cartesianZ
create_compressed_vector_xml_td_incomplete == xml_td_malformed_text1

\* src/test_data/create_test_files.py: create_compressed_vector_xml
create_compressed_vector_xml_td == xml_td_valid_text1

\* src/test_data/create_test_files.py: create_malformed_compressed_vector_xml
create_malformed_compressed_vector_xml_td == xml_td_malformed_text1

\* the coordinates of the three test points, in the order they are packed
TestPoints == <<1, 2, 3, 4, 5, 6, 7, 8, 9>>

RECURSIVE PackFloats(_)
\* the concatenation of struct.pack('<f', c) over the coordinates cs
PackFloats(cs) ==
  IF cs = <<>> THEN <<>> ELSE pack_f(Head(cs)) \o PackFloats(Tail(cs))

\* src/create_test_e57_files.py: create_point_data (one '<f' per coordinate)
create_point_data_root == PackFloats(TestPoints)

\* the points list of src/test_data/create_test_files.py create_point_data
TestPointTriples == <<<<1, 2, 3>>, <<4, 5, 6>>, <<7, 8, 9>>>>

\* struct.pack('<fff', x, y, z)
pack_fff(x, y, z) == pack_f(x) \o pack_f(y) \o pack_f(z)

RECURSIVE PackTriples(_)
\* the loop "for x, y, z in points: data.extend(struct.pack('<fff', x, y, z))"
PackTriples(points) ==
  IF points = <<>> THEN <<>>
  ELSE pack_fff(Head(points)[1], Head(points)[2], Head(points)[3])
         \o PackTriples(Tail(points))

RECURSIVE Flat(_)
\* a list of points written as src/create_test_e57_files.py writes its list:
\* the coordinates of the points one after the other
Flat(points) ==
  IF points = <<>> THEN <<>> ELSE Head(points) \o Flat(Tail(points))

\* src/test_data/create_test_files.py: create_point_data ('<fff' per point)
create_point_data_td == PackTriples(TestPointTriples)

\* the alignment with the remainder added instead of its complement
binary_offset_root_remainder(xml_offset, xml_length) ==
  LET binary_offset == xml_offset + xml_length
  IN  IF binary_offset % 8 # 0
        THEN binary_offset + (binary_offset % 8)
        ELSE binary_offset

\* binary_offset of src/create_test_e57_files.py create_e57_file:
\* after the XML, aligned to an 8-byte boundary
binary_offset_root(xml_offset, xml_length) ==
  LET binary_offset == xml_offset + xml_length
  IN  IF binary_offset % 8 # 0
        THEN binary_offset + (8 - (binary_offset % 8))
        ELSE binary_offset

\* the padding without its outer modulo: a whole unit at a boundary
padding_needed_td_whole(binary_offset) == 1024 - (binary_offset % 1024)

\* padding_needed of src/test_data/create_test_files.py create_e57_file
padding_needed_td(binary_offset) == (1024 - (binary_offset % 1024)) % 1024

\* binary_offset of src/test_data/create_test_files.py create_e57_file
binary_offset_td(xml_offset, xml_length) ==
  (xml_offset + xml_length) + padding_needed_td(xml_offset + xml_length)

\* the alignment rounding down to the page boundary
page_align_floor(binary_offset, page_size) ==
  (binary_offset \div page_size) * page_size

\* the page alignment of create_e57_with_bitpack_codec
page_align(binary_offset, page_size) ==
  ((binary_offset + page_size - 1) \div page_size) * page_size

\* a build that writes the header as create_e57_header made it
patch_header_root_skipped(header, file_length, xml_length) == header

\* the header patch of src/create_test_e57_files.py create_e57_file
patch_header_root(header, file_length, xml_length) ==
  LET h1 == SliceAssign(header, 16, 24, pack_Q(file_length))
  IN  SliceAssign(h1, 32, 40, pack_Q(xml_length))

\* the header patch of src/test_data/create_test_files.py create_e57_file
patch_header_td(header, total_length, xml_length) ==
  LET h1 == pack_into_Q(header, 24, total_length)
  IN  pack_into_Q(h1, 40, xml_length)

\* leftmost occurrence of old in s at or after position i, 0 when none
NextOccurrence(s, old, i) ==
  LET later == {p \in Occurrences(s, old) : p >= i}
  IN  IF later = {} THEN 0
      ELSE CHOOSE p \in later : \A q \in later : p <= q

RECURSIVE ReplaceFrom(_, _, _, _)
\* s[i..] with every leftmost non-overlapping occurrence of old replaced
ReplaceFrom(s, old, new, i) ==
  LET p == NextOccurrence(s, old, i)
  IN  IF p = 0 THEN SubSeq(s, i, Len(s))
      ELSE SubSeq(s, i, p - 1) \o new \o ReplaceFrom(s, old, new, p + Len(old))

\* str.replace(old, new)
Replace(s, old, new) == ReplaceFrom(s, old, new, 1)

\* the locals of create_e57_with_bitpack_codec at the point it opens the file
bitpack_plan ==
  LET xml_offset == 48
      page_size == 1024
      estimated_xml_size == 1600
      binary_offset0 == page_align(xml_offset + estimated_xml_size, page_size)
      xml_content0 == xml_bitpack_text1 \o Str(binary_offset0) \o xml_bitpack_text2
      xml_length0 == Len(xml_content0)
      point_data == PackFloats(TestPoints)
      binary_offset == page_align(xml_offset + xml_length0, page_size)
      file_physical_length == binary_offset + Len(point_data)
      xml_content ==
        Replace(xml_content0,
                FileOffsetAttr \o Str(xml_offset + estimated_xml_size) \o <<34>>,
                FileOffsetAttr \o Str(binary_offset) \o <<34>>)
      xml_length == Len(xml_content)
  IN  [header |-> Signature \o pack_I(1) \o pack_I(0)
                    \o pack_Q(file_physical_length) \o pack_Q(xml_offset)
                    \o pack_Q(xml_length) \o pack_Q(page_size),
       xml_offset |-> xml_offset,
       xml_bytes |-> xml_content,
       xml_length |-> xml_length,
       point_data |-> point_data,
       binary_offset |-> binary_offset,
       file_length |-> file_physical_length,
       padding |-> <<>>]

\* the fixture with <bitPackCodec/> put before its <zLibCodec
unsupported_plan_conflicting ==
  LET xml_bytes ==
        Replace(xml_unsupported_text1,
                <<60, 122, 76, 105, 98, 67, 111, 100, 101, 99>>,
                <<60, 98, 105, 116, 80, 97, 99, 107, 67, 111, 100, 101, 99, 47, 62>> \o
                  <<60, 122, 76, 105, 98, 67, 111, 100, 101, 99>>)
  IN  [header |-> Signature \o pack_I(1) \o pack_I(0)
                    \o pack_Q(48 + Len(xml_bytes)) \o pack_Q(48)
                    \o pack_Q(Len(xml_bytes)) \o pack_Q(1024),
       xml_offset |-> 48,
       xml_bytes |-> xml_bytes,
       xml_length |-> Len(xml_bytes),
       point_data |-> <<>>,
       binary_offset |-> 0,
       file_length |-> 48 + Len(xml_bytes),
       padding |-> <<>>]

\* the values create_e57_with_unsupported_codec writes; it has no binary
\* section: point_data and padding are empty and binary_offset is unused
unsupported_plan ==
  LET xml_bytes == xml_unsupported_text1
  IN  [header |-> Signature \o pack_I(1) \o pack_I(0)
                    \o pack_Q(48 + Len(xml_bytes)) \o pack_Q(48)
                    \o pack_Q(Len(xml_bytes)) \o pack_Q(1024),
       xml_offset |-> 48,
       xml_bytes |-> xml_bytes,
       xml_length |-> Len(xml_bytes),
       point_data |-> <<>>,
       binary_offset |-> 0,
       file_length |-> 48 + Len(xml_bytes),
       padding |-> <<>>]

(***************************************************************************)
(* State.                                                                  *)
(***************************************************************************)
PathValid == "test_data/compressedvector_uncompressed_data.e57"
PathMalformed == "test_data/malformed_compressedvector.e57"
PathRealPoints == "test_data/test_real_points.e57"
PathBitpack == "test_data/e57_bitpack_codec_test_fixed.e57"
PathUnsupported == "test_data/e57_unsupported_codec_test_fixed.e57"
Paths == {PathValid, PathMalformed, PathRealPoints, PathBitpack, PathUnsupported}

\* file names a caller of create_e57_file passes
CallPaths == {PathValid, PathRealPoints}

NoFile == [exists |-> FALSE, data |-> <<>>]

NoLocals ==
  [header |-> <<>>, xml_offset |-> 0, xml_bytes |-> <<>>, xml_length |-> 0,
   point_data |-> <<>>, binary_offset |-> 0, file_length |-> 0, padding |-> <<>>]

NoRequest ==
  [builder |-> "none", filename |-> "", xml_content |-> <<>>,
   point_data |-> <<>>, kind |-> "none"]

\* no finished build has written the path
NoDescription == [builder |-> "none", xml_content |-> <<>>, point_data |-> <<>>]

\* the path held no finished file before
NoPrevious == [desc |-> NoDescription, data |-> <<>>]

\* no exception.  type is the exception class; target the file being built
\* and during the statement that raised; stage is what the exception itself
\* says about the write stage
NoException == [type |-> "none", target |-> "", during |-> "none", stage |-> "none"]

VARIABLES
  fs,         \* path -> [exists, data]: the files under test_data/
  dirExists,  \* the directory test_data exists
  calls,      \* entry points invoked so far
  todo,       \* the builds the running script still has to make
  pc,         \* position of the running build
  req,        \* the running build: builder, arguments, kind of document
  loc,        \* the running build's locals
  fopen,      \* the output handle f is open
  outcome,    \* how the last entry point ended
  desc,       \* path -> description of the finished build that last wrote it
  prev,       \* path -> the finished file the path held before it was reopened
  wrote,      \* the running build's writes so far: stage, position, length
  raised,     \* the exception that ended the last entry point, if any
  reports,    \* the "Created ..." reports the running entry point has printed
  lay,        \* input and results of the layout computations (SpecLayout)
  enc,        \* input and results of the payload encoders (SpecEncode)
  ver,        \* the run of verify_sprint5_implementation.py (SpecVerify)
  two         \* the two-pass layout of create_e57_with_bitpack_codec (SpecTwoPass)

vars ==
  <<fs, dirExists, calls, todo, pc, req, loc, fopen, outcome, desc, prev, wrote,
    raised, reports, lay, enc, ver, two>>

Request(b, f, x, p, k) ==
  [builder |-> b, filename |-> f, xml_content |-> x, point_data |-> p, kind |-> k]

\* documents a caller passes to create_e57_file of src/create_test_e57_files.py
XmlInputs_root ==
  {[xml |-> create_compressed_vector_xml_root \o [i \in 1..k |-> 32], kind |-> "valid"] :
      k \in 0..MaxExtra}
  \cup {[xml |-> create_malformed_xml_root, kind |-> "malformed"]}

\* documents a caller passes to create_e57_file of src/test_data/create_test_files.py
XmlInputs_td ==
  {[xml |-> create_compressed_vector_xml_td \o [i \in 1..k |-> 32], kind |-> "valid"] :
      k \in 0..MaxExtra}
  \cup {[xml |-> create_malformed_compressed_vector_xml_td, kind |-> "malformed"]}

NoLayout == [xml_length |-> 0, applied |-> FALSE, root |-> 0, td |-> 0, codec |-> 0]

\* verify_sprint5_implementation.py not run.  files: the files that exist;
\* complete: the files that can be read and hold every string their content
\* check looks for; mocks_dir: the directory tests/mocks exists; crossed: the
\* checks reported with a cross; code: what main returned
NoVerification ==
  [files |-> {}, complete |-> {}, mocks_dir |-> FALSE, pc |-> "idle",
   all_interfaces_exist |-> FALSE, all_mocks_exist |-> FALSE, all_tests_exist |-> FALSE,
   exists |-> FALSE, crossed |-> {}, code |-> 0]

\* the two-pass layout not started.  extra: bytes of white space after the
\* document's root element
NoTwoPass ==
  [estimated_xml_size |-> 1600, extra |-> 0, pc |-> "idle", binary_offset |-> 0,
   xml_bytes |-> <<>>, xml_length |-> 0, file_physical_length |-> 0, file |-> <<>>]

\* the encoders not called
NoEncoding ==
  [points |-> <<>>, root_called |-> FALSE, root |-> <<>>, td_called |-> FALSE, td |-> <<>>]

Init ==
  /\ fs = [p \in Paths |-> NoFile]
  /\ dirExists \in BOOLEAN
  /\ calls = 0
  /\ todo = <<>>
  /\ pc = "idle"
  /\ req = NoRequest
  /\ loc = NoLocals
  /\ fopen = FALSE
  /\ outcome = "none"
  /\ desc = [p \in Paths |-> NoDescription]
  /\ prev = [p \in Paths |-> NoPrevious]
  /\ wrote = <<>>
  /\ raised = NoException
  /\ reports = {}
  /\ lay = NoLayout
  /\ enc = NoEncoding
  /\ ver = NoVerification
  /\ two = NoTwoPass

(***************************************************************************)
(* Entry points.                                                           *)
(***************************************************************************)
Idle == pc = "idle" /\ todo = <<>> /\ calls < MaxCalls

\* src/create_test_e57_files.py: main
main_root ==
  /\ Idle
  /\ calls' = calls + 1
  /\ dirExists' = TRUE
  /\ todo' = <<Request("root", PathValid, create_compressed_vector_xml_root,
                       create_point_data_root, "valid"),
               Request("root", PathMalformed, create_malformed_xml_root,
                       create_point_data_root, "malformed"),
               Request("root", PathRealPoints, create_compressed_vector_xml_root,
                       create_point_data_root, "valid")>>
  /\ outcome' = "running"
  /\ raised' = NoException
  /\ reports' = {}
  /\ UNCHANGED <<fs, pc, req, loc, fopen, desc, prev, wrote, lay, enc, ver, two>>

\* src/test_data/create_test_files.py: main
main_td ==
  /\ Idle
  /\ calls' = calls + 1
  /\ dirExists' = TRUE
  /\ todo' = <<Request("td", PathValid, create_compressed_vector_xml_td,
                       create_point_data_td, "valid"),
               Request("td", PathMalformed, create_malformed_compressed_vector_xml_td,
                       create_point_data_td, "malformed")>>
  /\ outcome' = "running"
  /\ raised' = NoException
  /\ reports' = {}
  /\ UNCHANGED <<fs, pc, req, loc, fopen, desc, prev, wrote, lay, enc, ver, two>>

\* src/test_data/create_test_e57_codec_fixed.py: the __main__ block
main_codec ==
  /\ Idle
  /\ calls' = calls + 1
  /\ todo' = <<Request("bitpack", PathBitpack, <<>>, <<>>, "valid"),
               Request("unsupported", PathUnsupported, <<>>, <<>>, "valid")>>
  /\ outcome' = "running"
  /\ raised' = NoException
  /\ reports' = {}
  /\ UNCHANGED <<fs, dirExists, pc, req, loc, fopen, desc, prev, wrote, lay, enc, ver, two>>

\* a caller invokes create_e57_file(filename, xml_content, point_data) of
\* src/create_test_e57_files.py
call_create_e57_file_root ==
  /\ Idle
  /\ \E f \in CallPaths, x \in XmlInputs_root, p \in {create_point_data_root, <<>>} :
       todo' = <<Request("root", f, x.xml, p, x.kind)>>
  /\ calls' = calls + 1
  /\ outcome' = "running"
  /\ raised' = NoException
  /\ reports' = {}
  /\ UNCHANGED <<fs, dirExists, pc, req, loc, fopen, desc, prev, wrote, lay, enc, ver, two>>

\* a caller invokes create_e57_file(filename, xml_data, point_data) of
\* src/test_data/create_test_files.py
call_create_e57_file_td ==
  /\ Idle
  /\ \E f \in CallPaths, x \in XmlInputs_td, p \in {create_point_data_td, <<>>} :
       todo' = <<Request("td", f, x.xml, p, x.kind)>>
  /\ calls' = calls + 1
  /\ outcome' = "running"
  /\ raised' = NoException
  /\ reports' = {}
  /\ UNCHANGED <<fs, dirExists, pc, req, loc, fopen, desc, prev, wrote, lay, enc, ver, two>>

\* a caller invokes create_e57_with_bitpack_codec()
call_create_e57_with_bitpack_codec ==
  /\ Idle
  /\ todo' = <<Request("bitpack", PathBitpack, <<>>, <<>>, "valid")>>
  /\ calls' = calls + 1
  /\ outcome' = "running"
  /\ raised' = NoException
  /\ reports' = {}
  /\ UNCHANGED <<fs, dirExists, pc, req, loc, fopen, desc, prev, wrote, lay, enc, ver, two>>

\* a caller invokes create_e57_with_unsupported_codec()
call_create_e57_with_unsupported_codec ==
  /\ Idle
  /\ todo' = <<Request("unsupported", PathUnsupported, <<>>, <<>>, "valid")>>
  /\ calls' = calls + 1
  /\ outcome' = "running"
  /\ raised' = NoException
  /\ reports' = {}
  /\ UNCHANGED <<fs, dirExists, pc, req, loc, fopen, desc, prev, wrote, lay, enc, ver, two>>

(***************************************************************************)
(* One build: the statements before the file is opened, then one step per  *)
(* f.write, then the end of the with block.                                *)
(***************************************************************************)
Start(b) == pc = "idle" /\ todo # <<>> /\ Head(todo).builder = b

\* src/create_test_e57_files.py create_e57_file, up to the open
create_e57_file_root ==
  /\ Start("root")
  /\ LET r == Head(todo)
         h == create_e57_header_root
         xml_length == Len(r.xml_content)
         binary_offset == binary_offset_root(h.xml_offset, xml_length)
         file_length == binary_offset + Len(r.point_data)
     IN  /\ req' = r
         /\ loc' = [header |-> patch_header_root(h.header, file_length, xml_length),
                    xml_offset |-> h.xml_offset,
                    xml_bytes |-> r.xml_content,
                    xml_length |-> xml_length,
                    point_data |-> r.point_data,
                    binary_offset |-> binary_offset,
                    file_length |-> file_length,
                    padding |-> <<>>]
  /\ todo' = Tail(todo)
  /\ pc' = "open"
  /\ UNCHANGED <<fs, dirExists, calls, fopen, outcome, desc, prev, wrote, raised, reports, lay, enc, ver, two>>

\* src/test_data/create_test_files.py create_e57_file, up to the open
create_e57_file_td ==
  /\ Start("td")
  /\ LET r == Head(todo)
         header == create_e57_header_td
         xml_offset == Len(header)
         xml_length == Len(r.xml_content)
         padding_needed == padding_needed_td(xml_offset + xml_length)
         binary_offset == binary_offset_td(xml_offset, xml_length)
         total_length == binary_offset + Len(r.point_data)
     IN  /\ req' = r
         /\ loc' = [header |-> patch_header_td(header, total_length, xml_length),
                    xml_offset |-> xml_offset,
                    xml_bytes |-> r.xml_content,
                    xml_length |-> xml_length,
                    point_data |-> r.point_data,
                    binary_offset |-> binary_offset,
                    file_length |-> total_length,
                    padding |-> Zeros(padding_needed)]
  /\ todo' = Tail(todo)
  /\ pc' = "open"
  /\ UNCHANGED <<fs, dirExists, calls, fopen, outcome, desc, prev, wrote, raised, reports, lay, enc, ver, two>>

\* create_e57_with_bitpack_codec, up to the open; it creates test_data
create_e57_with_bitpack_codec ==
  /\ Start("bitpack")
  /\ req' = Head(todo)
  /\ loc' = bitpack_plan
  /\ dirExists' = TRUE
  /\ todo' = Tail(todo)
  /\ pc' = "open"
  /\ UNCHANGED <<fs, calls, fopen, outcome, desc, prev, wrote, raised, reports, lay, enc, ver, two>>

\* create_e57_with_unsupported_codec, up to the open
create_e57_with_unsupported_codec ==
  /\ Start("unsupported")
  /\ req' = Head(todo)
  /\ loc' = unsupported_plan
  /\ todo' = Tail(todo)
  /\ pc' = "open"
  /\ UNCHANGED <<fs, dirExists, calls, fopen, outcome, desc, prev, wrote, raised, reports, lay, enc, ver, two>>

\* the file opened without truncation: the writes go after the old content
OpenFile_append ==
  /\ pc = "open"
  /\ IF dirExists
       THEN /\ fs' = [fs EXCEPT ![req.filename] = [exists |-> TRUE, data |-> @.data]]
            /\ desc' = [desc EXCEPT ![req.filename] = NoDescription]
            /\ prev' = [prev EXCEPT ![req.filename] =
                          [desc |-> desc[req.filename],
                           data |-> fs[req.filename].data]]
            /\ fopen' = TRUE
            /\ pc' = "header"
            /\ UNCHANGED <<todo, req, loc, outcome, raised>>
       ELSE /\ pc' = "idle"
            /\ todo' = <<>>
            /\ req' = NoRequest
            /\ loc' = NoLocals
            /\ outcome' = "failed"
            /\ raised' = [type |-> "FileNotFoundError", target |-> req.filename,
                          during |-> "open", stage |-> "none"]
            /\ UNCHANGED <<fs, desc, prev, fopen>>
  /\ wrote' = <<>>
  /\ UNCHANGED <<dirExists, calls, reports, lay, enc, ver, two>>

\* open(filename, 'wb'): truncates; fails when test_data does not exist,
\* and the exception ends the script
OpenFile ==
  /\ pc = "open"
  /\ IF dirExists
       THEN /\ fs' = [fs EXCEPT ![req.filename] = [exists |-> TRUE, data |-> <<>>]]
            /\ desc' = [desc EXCEPT ![req.filename] = NoDescription]
            /\ prev' = [prev EXCEPT ![req.filename] =
                          [desc |-> desc[req.filename],
                           data |-> fs[req.filename].data]]
            /\ fopen' = TRUE
            /\ pc' = "header"
            /\ UNCHANGED <<todo, req, loc, outcome, raised>>
       ELSE /\ pc' = "idle"
            /\ todo' = <<>>
            /\ req' = NoRequest
            /\ loc' = NoLocals
            /\ outcome' = "failed"
            /\ raised' = [type |-> "FileNotFoundError", target |-> req.filename,
                          during |-> "open", stage |-> "none"]
            /\ UNCHANGED <<fs, desc, prev, fopen>>
  /\ wrote' = <<>>
  /\ UNCHANGED <<dirExists, calls, reports, lay, enc, ver, two>>

\* f.tell()
Tell == Len(fs[req.filename].data)

\* f.write(b): appends at the stream position
Write(stage, b) ==
  /\ fs' = [fs EXCEPT ![req.filename] = [exists |-> TRUE, data |-> @.data \o b]]
  /\ wrote' = Append(wrote, [stage |-> stage, at |-> Len(fs[req.filename].data),
                              len |-> Len(b)])


\* f.write(header)  (bitpack, unsupported: the seven writes of the fields)
WriteHeader ==
  /\ pc = "header"
  /\ Write("header", loc.header)
  /\ pc' = "xml"
  /\ UNCHANGED <<dirExists, calls, todo, req, loc, fopen, outcome, desc, prev, raised, reports, lay, enc, ver, two>>

\* a writer that reconciles the declared fileOffset with its own plan
WriteXml_reconciled ==
  /\ pc = "xml"
  /\ Write("xml",
           IF DeclaredOffsets(loc.xml_bytes) = {} THEN loc.xml_bytes
           ELSE LET d == CHOOSE d \in DeclaredOffsets(loc.xml_bytes) : TRUE
                IN  Replace(loc.xml_bytes, FileOffsetAttr \o Str(d),
                            FileOffsetAttr \o Str(loc.binary_offset)))
  /\ pc' = IF req.builder = "unsupported" THEN "close" ELSE "pad"
  /\ UNCHANGED <<dirExists, calls, todo, req, loc, fopen, outcome, desc, prev, raised, reports, lay, enc, ver, two>>

\* f.write(xml_content)
WriteXml ==
  /\ pc = "xml"
  /\ Write("xml", loc.xml_bytes)
  /\ pc' = IF req.builder = "unsupported" THEN "close" ELSE "pad"
  /\ UNCHANGED <<dirExists, calls, todo, req, loc, fopen, outcome, desc, prev, raised, reports, lay, enc, ver, two>>

\* the padding counted from the XML length alone, the header forgotten
PaddingBytes_noHeader ==
  CASE req.builder = "root" ->
         IF loc.xml_length < loc.binary_offset
           THEN Zeros(loc.binary_offset - loc.xml_length) ELSE <<>>
    [] req.builder = "td" -> loc.padding
    [] req.builder = "bitpack" ->
         LET padding_needed == loc.binary_offset - Tell
         IN  IF padding_needed > 0 THEN Zeros(padding_needed) ELSE <<>>

\* the padding bytes each builder writes at the current position
PaddingBytes ==
  CASE req.builder = "root" ->
         IF Tell < loc.binary_offset THEN Zeros(loc.binary_offset - Tell) ELSE <<>>
    [] req.builder = "td" -> loc.padding
    [] req.builder = "bitpack" ->
         LET padding_needed == loc.binary_offset - Tell
         IN  IF padding_needed > 0 THEN Zeros(padding_needed) ELSE <<>>

\* pad to the binary offset
WritePadding ==
  /\ pc = "pad"
  /\ Write("padding", PaddingBytes)
  /\ pc' = "payload"
  /\ UNCHANGED <<dirExists, calls, todo, req, loc, fopen, outcome, desc, prev, raised, reports, lay, enc, ver, two>>

\* f.write(point_data)
WritePayload ==
  /\ pc = "payload"
  /\ Write("payload", loc.point_data)
  /\ pc' = "close"
  /\ UNCHANGED <<dirExists, calls, todo, req, loc, fopen, outcome, desc, prev, raised, reports, lay, enc, ver, two>>

\* the bytes the f.write at the current position is given
StageBytes ==
  CASE pc = "header" -> loc.header
    [] pc = "xml" -> loc.xml_bytes
    [] pc = "pad" -> PaddingBytes
    [] pc = "payload" -> loc.point_data

\* the write stage of a position
StageOf(p) == IF p = "pad" THEN "padding" ELSE p

\* how much of its bytes a failing write may leave in the file
PartialLengths(b) == {0, Len(b) \div 2}

\* a failing write that leaves the handle open (no with block)
WriteFails_leak ==
  /\ pc \in {"header", "xml", "pad", "payload"}
  /\ Len(StageBytes) > 0
  /\ \E n \in PartialLengths(StageBytes) :
       /\ fs' = [fs EXCEPT ![req.filename] =
                   [exists |-> TRUE, data |-> @.data \o SubSeq(StageBytes, 1, n)]]
       /\ wrote' = Append(wrote, [stage |-> StageOf(pc), at |-> Tell, len |-> n])
  /\ fopen' = fopen
  /\ raised' = [type |-> "OSError", target |-> req.filename,
                during |-> StageOf(pc), stage |-> "none"]
  /\ outcome' = "failed"
  /\ todo' = <<>>
  /\ pc' = "idle"
  /\ req' = NoRequest
  /\ loc' = NoLocals
  /\ UNCHANGED <<dirExists, calls, desc, prev, reports, lay, enc, ver, two>>

\* an f.write raises OSError (disk full, I/O error): part of its bytes may
\* have reached the file; the with block closes f, no except clause catches
\* the exception, and it ends the script
WriteFails ==
  /\ pc \in {"header", "xml", "pad", "payload"}
  /\ Len(StageBytes) > 0
  /\ \E n \in PartialLengths(StageBytes) :
       /\ fs' = [fs EXCEPT ![req.filename] =
                   [exists |-> TRUE, data |-> @.data \o SubSeq(StageBytes, 1, n)]]
       /\ wrote' = Append(wrote, [stage |-> StageOf(pc), at |-> Tell, len |-> n])
  /\ fopen' = FALSE
  /\ raised' = [type |-> "OSError", target |-> req.filename,
                during |-> StageOf(pc), stage |-> "none"]
  /\ outcome' = "failed"
  /\ todo' = <<>>
  /\ pc' = "idle"
  /\ req' = NoRequest
  /\ loc' = NoLocals
  /\ UNCHANGED <<dirExists, calls, desc, prev, reports, lay, enc, ver, two>>

\* what a build is made from: the builder and its arguments
Description(r) ==
  [builder |-> r.builder, xml_content |-> r.xml_content, point_data |-> r.point_data]

\* the end of the with block and the report; the script goes on
CloseFile ==
  /\ pc = "close"
  /\ fopen' = FALSE
  /\ reports' = IF todo = <<>> THEN {} ELSE reports \cup {req.filename}
  /\ desc' = [desc EXCEPT ![req.filename] = Description(req)]
  /\ pc' = "idle"
  /\ req' = NoRequest
  /\ loc' = NoLocals
  /\ outcome' = IF todo = <<>> THEN "ok" ELSE outcome
  /\ wrote' = <<>>
  /\ UNCHANGED <<fs, dirExists, calls, todo, prev, raised, lay, enc, ver, two>>

(***************************************************************************)
(* The layout computations of the three builders applied to an xml_length. *)
(***************************************************************************)
Layout(n) ==
  [xml_length |-> n,
   applied |-> TRUE,
   root |-> binary_offset_root(48, n),
   td |-> binary_offset_td(48, n),
   codec |-> page_align(48 + n, 1024)]

ApplyLayout ==
  /\ ~lay.applied
  /\ lay' = Layout(lay.xml_length)
  /\ UNCHANGED <<fs, dirExists, calls, todo, pc, req, loc, fopen, outcome, desc, prev, wrote,
               raised, reports, enc, ver, two>>

Next ==
  \/ main_root
  \/ main_td
  \/ main_codec
  \/ call_create_e57_file_root
  \/ call_create_e57_file_td
  \/ call_create_e57_with_bitpack_codec
  \/ call_create_e57_with_unsupported_codec
  \/ create_e57_file_root
  \/ create_e57_file_td
  \/ create_e57_with_bitpack_codec
  \/ create_e57_with_unsupported_codec
  \/ OpenFile
  \/ WriteHeader
  \/ WriteXml
  \/ WritePadding
  \/ WritePayload
  \/ CloseFile

Spec == Init /\ [][Next]_vars

\* the three scripts on a file system whose writes can fail
NextIO ==
  \/ main_root
  \/ main_td
  \/ main_codec
  \/ create_e57_file_root
  \/ create_e57_file_td
  \/ create_e57_with_bitpack_codec
  \/ create_e57_with_unsupported_codec
  \/ OpenFile
  \/ WriteHeader
  \/ WriteXml
  \/ WritePadding
  \/ WritePayload
  \/ CloseFile
  \/ WriteFails

SpecIO == Init /\ [][NextIO]_vars

\* the three scripts, run in any order
NextScripts ==
  \/ main_root
  \/ main_td
  \/ main_codec
  \/ create_e57_file_root
  \/ create_e57_file_td
  \/ create_e57_with_bitpack_codec
  \/ create_e57_with_unsupported_codec
  \/ OpenFile
  \/ WriteHeader
  \/ WriteXml
  \/ WritePadding
  \/ WritePayload
  \/ CloseFile

SpecScripts == Init /\ [][NextScripts]_vars

InitLayout ==
  /\ fs = [p \in Paths |-> NoFile]
  /\ dirExists = FALSE
  /\ calls = 0
  /\ todo = <<>>
  /\ pc = "idle"
  /\ req = NoRequest
  /\ loc = NoLocals
  /\ fopen = FALSE
  /\ outcome = "none"
  /\ desc = [p \in Paths |-> NoDescription]
  /\ prev = [p \in Paths |-> NoPrevious]
  /\ wrote = <<>>
  /\ raised = NoException
  /\ reports = {}
  /\ \E n \in 0..MaxXmlLength : lay = [NoLayout EXCEPT !.xml_length = n]
  /\ enc = NoEncoding
  /\ ver = NoVerification
  /\ two = NoTwoPass

NextLayout == ApplyLayout

SpecLayout == InitLayout /\ [][NextLayout]_vars


(***************************************************************************)
(* The payload encoders applied to a list of points.  The scripts' own     *)
(* lists are TestPoints and TestPointTriples; the loops are the same for   *)
(* every list.                                                             *)
(***************************************************************************)
Coordinates == 0..MaxCoord

\* the lists of at most MaxPoints points, and the list of the scripts
PointInputs ==
  UNION {[1..n -> [1..3 -> Coordinates]] : n \in 0..MaxPoints} \cup {TestPointTriples}

\* src/create_test_e57_files.py create_point_data, on the points of enc
call_create_point_data_root ==
  /\ ~enc.root_called
  /\ enc' = [enc EXCEPT !.root_called = TRUE, !.root = PackFloats(Flat(enc.points))]
  /\ UNCHANGED <<fs, dirExists, calls, todo, pc, req, loc, fopen, outcome, desc, prev, wrote,
               raised, reports, lay, ver, two>>

\* src/test_data/create_test_files.py create_point_data, on the points of enc
call_create_point_data_td ==
  /\ ~enc.td_called
  /\ enc' = [enc EXCEPT !.td_called = TRUE, !.td = PackTriples(enc.points)]
  /\ UNCHANGED <<fs, dirExists, calls, todo, pc, req, loc, fopen, outcome, desc, prev, wrote,
               raised, reports, lay, ver, two>>

\* main of src/create_test_e57_files.py once its create_point_data() has
\* returned the payload it passes on
main_root_encoded ==
  /\ enc.root_called
  /\ enc.root = create_point_data_root
  /\ main_root

\* main of src/test_data/create_test_files.py, likewise
main_td_encoded ==
  /\ enc.td_called
  /\ enc.td = create_point_data_td
  /\ main_td

InitEncode ==
  /\ fs = [p \in Paths |-> NoFile]
  /\ dirExists = TRUE
  /\ calls = 0
  /\ todo = <<>>
  /\ pc = "idle"
  /\ req = NoRequest
  /\ loc = NoLocals
  /\ fopen = FALSE
  /\ outcome = "none"
  /\ desc = [p \in Paths |-> NoDescription]
  /\ prev = [p \in Paths |-> NoPrevious]
  /\ wrote = <<>>
  /\ raised = NoException
  /\ reports = {}
  /\ lay = NoLayout
  /\ \E points \in PointInputs : enc = [NoEncoding EXCEPT !.points = points]
  /\ ver = NoVerification
  /\ two = NoTwoPass

NextEncode ==
  \/ call_create_point_data_root
  \/ call_create_point_data_td
  \/ main_root_encoded
  \/ main_td_encoded
  \/ create_e57_file_root
  \/ create_e57_file_td
  \/ OpenFile
  \/ WriteHeader
  \/ WriteXml
  \/ WritePadding
  \/ WritePayload
  \/ CloseFile

SpecEncode == InitEncode /\ [][NextEncode]_vars

(***************************************************************************)
(* src/verify_sprint5_implementation.py                                    *)
(***************************************************************************)
interface_files ==
  {"src/IE57Writer.h", "src/IPointCloudViewer.h", "src/IMainView.h",
   "src/MainPresenter.h", "src/MainPresenter.cpp"}

mock_files ==
  {"tests/mocks/MockE57Parser.h", "tests/mocks/MockE57Writer.h",
   "tests/mocks/MockPointCloudViewer.h", "tests/mocks/MockMainView.h"}

test_files == {"tests/test_mainpresenter.cpp"}

doc_files == {"docs/sprint5_implementation_summary.md"}

\* the files main gives to check_file_contains
content_files ==
  {"src/IE57Writer.h", "src/MainPresenter.h", "tests/mocks/MockE57Parser.h",
   "tests/test_mainpresenter.cpp", "CMakeLists.txt", "tests/test_e57parserlib.cpp"}

\* every file the script looks at
VerifiedFiles ==
  interface_files \cup mock_files \cup test_files \cup doc_files \cup content_files

\* check_file_exists(filepath)[0]
check_file_exists(filepath) == filepath \in ver.files

\* check_file_contains(filepath, search_strings)[0]: the file exists, can be
\* read, and no search string is missing from it
check_file_contains(filepath) == filepath \in ver.files /\ filepath \in ver.complete

\* sections 1 to 3 of main: "for filepath in ...: if not exists: all_... = False"
all_exist(paths) == \A filepath \in paths : check_file_exists(filepath)

\* the files of paths reported missing
missing(paths) == {filepath \in paths : ~check_file_exists(filepath)}

\* the file systems verify_sprint5_implementation.py is run in: at most
\* MaxMissing of the files are missing, at most MaxMissing of the others lack
\* some of their content
Environments ==
  {[NoVerification EXCEPT !.files = F, !.complete = C, !.mocks_dir = d] :
      F \in {X \in SUBSET VerifiedFiles : Cardinality(VerifiedFiles \ X) <= MaxMissing},
      C \in {X \in SUBSET content_files : Cardinality(content_files \ X) <= MaxMissing},
      d \in BOOLEAN}

\* main, section 1: interface files
main_interface_files ==
  /\ ver.pc = "idle"
  /\ ver' = [ver EXCEPT !.pc = "mocks",
                        !.all_interfaces_exist = all_exist(interface_files),
                        !.crossed = @ \cup missing(interface_files)]
  /\ UNCHANGED <<fs, dirExists, calls, todo, pc, req, loc, fopen, outcome, desc, prev, wrote,
               raised, reports, lay, enc, two>>

\* main, section 2: mock implementation files
main_mock_files ==
  /\ ver.pc = "mocks"
  /\ ver' = [ver EXCEPT !.pc = "tests",
                        !.all_mocks_exist = all_exist(mock_files),
                        !.crossed = @ \cup missing(mock_files)]
  /\ UNCHANGED <<fs, dirExists, calls, todo, pc, req, loc, fopen, outcome, desc, prev, wrote,
               raised, reports, lay, enc, two>>

\* main, section 3: test files
main_test_files ==
  /\ ver.pc = "tests"
  /\ ver' = [ver EXCEPT !.pc = "content",
                        !.all_tests_exist = all_exist(test_files),
                        !.crossed = @ \cup missing(test_files)]
  /\ UNCHANGED <<fs, dirExists, calls, todo, pc, req, loc, fopen, outcome, desc, prev, wrote,
               raised, reports, lay, enc, two>>

\* main, section 4: the six content checks; each assigns exists and prints
\* its message, the last one is of tests/test_e57parserlib.cpp
main_content ==
  /\ ver.pc = "content"
  /\ ver' = [ver EXCEPT !.pc = "directory",
                        !.exists = check_file_contains("tests/test_e57parserlib.cpp"),
                        !.crossed = @ \cup {filepath \in content_files :
                                              ~check_file_contains(filepath)}]
  /\ UNCHANGED <<fs, dirExists, calls, todo, pc, req, loc, fopen, outcome, desc, prev, wrote,
               raised, reports, lay, enc, two>>

\* main, section 5: the directory tests/mocks
main_directory ==
  /\ ver.pc = "directory"
  /\ ver' = [ver EXCEPT !.pc = "docs",
                        !.crossed = @ \cup (IF ver.mocks_dir THEN {} ELSE {"tests/mocks"})]
  /\ UNCHANGED <<fs, dirExists, calls, todo, pc, req, loc, fopen, outcome, desc, prev, wrote,
               raised, reports, lay, enc, two>>

\* main, section 6: documentation
main_documentation ==
  /\ ver.pc = "docs"
  /\ ver' = [ver EXCEPT !.pc = "requirements",
                        !.exists = all_exist(doc_files),
                        !.crossed = @ \cup missing(doc_files)]
  /\ UNCHANGED <<fs, dirExists, calls, todo, pc, req, loc, fopen, outcome, desc, prev, wrote,
               raised, reports, lay, enc, two>>

\* the second components of the list requirements of main
requirements ==
  <<ver.all_mocks_exist,
    ver.all_tests_exist,
    TRUE,
    TRUE,
    check_file_exists("docs/sprint5_implementation_summary.md")>>

\* main, section 7 and the return
main_requirements ==
  /\ ver.pc = "requirements"
  /\ LET all_requirements_met == \A i \in 1..Len(requirements) : requirements[i]
     IN  ver' = [ver EXCEPT !.pc = "returned",
                            !.code = IF all_requirements_met THEN 0 ELSE 1]
  /\ UNCHANGED <<fs, dirExists, calls, todo, pc, req, loc, fopen, outcome, desc, prev, wrote,
               raised, reports, lay, enc, two>>

InitVerify ==
  /\ fs = [p \in Paths |-> NoFile]
  /\ dirExists = FALSE
  /\ calls = 0
  /\ todo = <<>>
  /\ pc = "idle"
  /\ req = NoRequest
  /\ loc = NoLocals
  /\ fopen = FALSE
  /\ outcome = "none"
  /\ desc = [p \in Paths |-> NoDescription]
  /\ prev = [p \in Paths |-> NoPrevious]
  /\ wrote = <<>>
  /\ raised = NoException
  /\ reports = {}
  /\ lay = NoLayout
  /\ enc = NoEncoding
  /\ ver \in {e \in Environments : (e.files \cap mock_files # {}) => e.mocks_dir}
  /\ two = NoTwoPass

NextVerify ==
  \/ main_interface_files
  \/ main_mock_files
  \/ main_test_files
  \/ main_content
  \/ main_directory
  \/ main_documentation
  \/ main_requirements

SpecVerify == InitVerify /\ [][NextVerify]_vars

(***************************************************************************)
(* The two-pass layout of create_e57_with_bitpack_codec, step by step, for *)
(* documents of other lengths and other estimates of the XML size          *)
(***************************************************************************)
\* the estimates: the script's 1600, and one that puts 48 + estimate on the
\* boundary of page MaxPages
Estimates == {1600, 1024 * MaxPages - 48}

\* first pass: the offset from the estimate, embedded in the document
bitpack_estimate ==
  /\ two.pc = "idle"
  /\ LET xml_offset == 48
         page_size == 1024
         binary_offset == page_align(xml_offset + two.estimated_xml_size, page_size)
         xml_content == xml_bitpack_text1 \o Str(binary_offset) \o xml_bitpack_text2
                          \o [i \in 1..two.extra |-> 10]
     IN  two' = [two EXCEPT !.pc = "estimated",
                            !.binary_offset = binary_offset,
                            !.xml_bytes = xml_content,
                            !.xml_length = Len(xml_content)]
  /\ UNCHANGED <<fs, dirExists, calls, todo, pc, req, loc, fopen, outcome, desc, prev, wrote,
               raised, reports, lay, enc, ver>>

\* "Recalculate binary offset with actual XML size"
bitpack_recalculate ==
  /\ two.pc = "estimated"
  /\ LET xml_offset == 48
         page_size == 1024
         point_data == PackFloats(TestPoints)
         binary_offset == page_align(xml_offset + two.xml_length, page_size)
     IN  two' = [two EXCEPT !.pc = "recalculated",
                            !.binary_offset = binary_offset,
                            !.file_physical_length = binary_offset + Len(point_data)]
  /\ UNCHANGED <<fs, dirExists, calls, todo, pc, req, loc, fopen, outcome, desc, prev, wrote,
               raised, reports, lay, enc, ver>>

\* "Update XML with correct binary offset"
bitpack_update_xml ==
  /\ two.pc = "recalculated"
  /\ LET xml_offset == 48
         xml_content ==
           Replace(two.xml_bytes,
                   FileOffsetAttr \o Str(xml_offset + two.estimated_xml_size) \o <<34>>,
                   FileOffsetAttr \o Str(two.binary_offset) \o <<34>>)
     IN  two' = [two EXCEPT !.pc = "updated",
                            !.xml_bytes = xml_content,
                            !.xml_length = Len(xml_content)]
  /\ UNCHANGED <<fs, dirExists, calls, todo, pc, req, loc, fopen, outcome, desc, prev, wrote,
               raised, reports, lay, enc, ver>>

\* the with block: header, XML, padding if any is needed, point data
bitpack_write ==
  /\ two.pc = "updated"
  /\ LET point_data == PackFloats(TestPoints)
         header == Signature \o pack_I(1) \o pack_I(0)
                     \o pack_Q(two.file_physical_length) \o pack_Q(48)
                     \o pack_Q(two.xml_length) \o pack_Q(1024)
         current_pos == Len(header) + Len(two.xml_bytes)
         padding_needed == two.binary_offset - current_pos
         padding == IF padding_needed > 0 THEN Zeros(padding_needed) ELSE <<>>
     IN  two' = [two EXCEPT !.pc = "written",
                            !.file = header \o two.xml_bytes \o padding \o point_data]
  /\ UNCHANGED <<fs, dirExists, calls, todo, pc, req, loc, fopen, outcome, desc, prev, wrote,
               raised, reports, lay, enc, ver>>

InitTwoPass ==
  /\ fs = [p \in Paths |-> NoFile]
  /\ dirExists = FALSE
  /\ calls = 0
  /\ todo = <<>>
  /\ pc = "idle"
  /\ req = NoRequest
  /\ loc = NoLocals
  /\ fopen = FALSE
  /\ outcome = "none"
  /\ desc = [p \in Paths |-> NoDescription]
  /\ prev = [p \in Paths |-> NoPrevious]
  /\ wrote = <<>>
  /\ raised = NoException
  /\ reports = {}
  /\ lay = NoLayout
  /\ enc = NoEncoding
  /\ ver = NoVerification
  /\ \E estimate \in Estimates, extra \in 0..MaxFiller :
       two = [NoTwoPass EXCEPT !.estimated_xml_size = estimate, !.extra = extra]

NextTwoPass ==
  \/ bitpack_estimate
  \/ bitpack_recalculate
  \/ bitpack_update_xml
  \/ bitpack_write

SpecTwoPass == InitTwoPass /\ [][NextTwoPass]_vars
(***************************************************************************)
(* Vocabulary of the properties.                                           *)
(***************************************************************************)
\* the build has made all its writes; the handle is about to be closed
Done == pc = "close"

\* the bytes of the file being written
File == fs[req.filename].data

\* the builders that write a binary section
HasBinary == req.builder \in {"root", "td", "bitpack"}

\* the header as create_e57_header leaves it, before any patch
Placeholder(b) ==
  IF b = "root" THEN create_e57_header_root.header ELSE create_e57_header_td

\* the alignment unit of a builder
AlignmentUnit(b) == IF b = "root" THEN 8 ELSE 1024

\* roundUp of the layout calculator
RoundUp(v, unit) == v + ((unit - (v % unit)) % unit)

\* the order of the writes of a build
Stages == <<"header", "xml", "padding", "payload">>

\* the XML region of the file being written
FileXml == Slice(File, 48, 48 + Len(loc.xml_bytes))

(***************************************************************************)
(* C1: in every well-formed fixture written by create_e57_file (both       *)
(* scripts) or create_e57_with_bitpack_codec, the u64 at byte offset 16 of *)
(* the written header equals binaryOffset + the payload length, which is   *)
(* the number of bytes written.                                            *)
(***************************************************************************)
C1_FilePhysicalLength ==
  (Done /\ HasBinary /\ req.kind = "valid") =>
     /\ unpack_Q(File, 16) = wrote[4].at + Len(loc.point_data)
     /\ unpack_Q(File, 16) = Len(File)

(***************************************************************************)
(* C2: in every file written by any builder the u64 at byte offset 24 of   *)
(* the written header (xmlOffset) is 48.                                   *)
(***************************************************************************)
C2_XmlOffsetIsHeaderSize ==
  Done => unpack_Q(File, 24) = 48

(***************************************************************************)
(* C3: in every file written by any builder the u64 at byte offset 32 of   *)
(* the written header (xmlLength) is the length of the XML written at      *)
(* offset 48, and xmlOffset + xmlLength rounded up to the alignment unit   *)
(* is the offset at which the first payload byte is written.               *)
(***************************************************************************)
C3_XmlLengthField ==
  Done =>
     /\ wrote[2].at = 48
     /\ unpack_Q(File, 32) = wrote[2].len
     /\ HasBinary =>
          RoundUp(unpack_Q(File, 24) + unpack_Q(File, 32), AlignmentUnit(req.builder))
            = wrote[4].at

(***************************************************************************)
(* C4: the back-patch of create_e57_file overwrites only filePhysicalLength*)
(* and xmlLength: signature, versions, xmlOffset and pageSize are the      *)
(* bytes create_e57_header produced, pageSize stays 1024, and the header   *)
(* stays 48 bytes long.                                                    *)
(***************************************************************************)
C4_PatchPreservesOtherFields ==
  (pc # "idle" /\ req.builder \in {"root", "td"}) =>
     LET h0 == Placeholder(req.builder)
         h == loc.header
     IN  /\ Len(h) = 48
         /\ Slice(h, 0, 16) = Slice(h0, 0, 16)
         /\ Slice(h, 24, 32) = Slice(h0, 24, 32)
         /\ Slice(h, 40, 48) = Slice(h0, 40, 48)
         /\ unpack_Q(h, 40) = 1024

(***************************************************************************)
(* C5: in every well-formed single-record fixture, every fileOffset        *)
(* attribute of the written XML equals the offset at which the payload is  *)
(* written.                                                                *)
(***************************************************************************)
C5_DeclaredOffsetIsBinaryOffset ==
  (Done /\ HasBinary /\ req.kind = "valid") =>
     DeclaredOffsets(FileXml) = {wrote[4].at}

(***************************************************************************)
(* C6: for any xml_length, the binary offset each builder computes is a    *)
(* multiple of its alignment unit: 8 in src/create_test_e57_files.py, 1024 *)
(* in the two builders of src/test_data.                                   *)
(***************************************************************************)
C6_BinaryOffsetAligned ==
  lay.applied =>
     /\ lay.root % 8 = 0
     /\ lay.td % 1024 = 0
     /\ lay.codec % 1024 = 0
     /\ lay.root >= 48 + lay.xml_length
     /\ lay.td >= 48 + lay.xml_length
     /\ lay.codec >= 48 + lay.xml_length

\* an xml_length that ends off every boundary, so that each builder rounds
C6_Witness ==
  /\ lay.applied
  /\ (48 + lay.xml_length) % 8 # 0
  /\ lay.root > 48 + lay.xml_length
  /\ lay.td > 48 + lay.xml_length
  /\ lay.codec > 48 + lay.xml_length

(***************************************************************************)
(* C7: a build emits the patched header (never the placeholder), then the  *)
(* XML, then the padding, then the payload, each write starting where the  *)
(* previous one ended; for a well-formed fixture the number of bytes       *)
(* emitted is roundUp(48 + xmlLength, unit) + the payload length.          *)
(***************************************************************************)
C7_EmissionOrder ==
  fopen =>
     /\ Len(wrote) <= 4
     /\ \A i \in 1..Len(wrote) :
          /\ wrote[i].stage = Stages[i]
          /\ wrote[i].at = IF i = 1 THEN 0 ELSE wrote[i - 1].at + wrote[i - 1].len
     /\ Len(File) = IF wrote = <<>> THEN 0
                    ELSE wrote[Len(wrote)].at + wrote[Len(wrote)].len
     /\ Len(wrote) >= 1 =>
          /\ Slice(File, 0, 48) = loc.header
          /\ req.builder \in {"root", "td"} =>
               Slice(File, 0, 48) # Placeholder(req.builder)
     /\ Len(wrote) >= 2 => FileXml = loc.xml_bytes
     /\ (Done /\ HasBinary) =>
          /\ Len(wrote) = 4
          /\ File = loc.header \o loc.xml_bytes \o Zeros(wrote[3].len) \o loc.point_data
          /\ req.kind = "valid" =>
               Len(File) = RoundUp(48 + Len(loc.xml_bytes), AlignmentUnit(req.builder))
                             + Len(loc.point_data)

\* a well-formed build of create_e57_file has emitted all four parts
C7_Witness ==
  /\ Done
  /\ req.builder \in {"root", "td"}
  /\ req.kind = "valid"
  /\ Len(wrote) = 4
  /\ wrote[3].len > 0
  /\ wrote[4].len > 0

(***************************************************************************)
(* C8: every byte between the end of the XML and the planned binary offset *)
(* is zero, and the stream is at the planned binary offset when the first  *)
(* payload byte is written.                                                *)
(***************************************************************************)
C8_ZeroPaddingToBinaryOffset ==
  (pc \in {"payload", "close"} /\ HasBinary) =>
     /\ \A i \in (48 + Len(loc.xml_bytes) + 1)..loc.binary_offset : File[i] = 0
     /\ pc = "payload" => Len(File) = loc.binary_offset
     /\ pc = "close" => wrote[4].at = loc.binary_offset

\* the payload is about to be written after a non-empty padding
C8_Witness ==
  /\ pc = "payload"
  /\ HasBinary
  /\ loc.binary_offset > 48 + Len(loc.xml_bytes)
  /\ Len(loc.point_data) > 0

(***************************************************************************)
(* C9: the writer emits the XML it is given verbatim: in a malformed       *)
(* fixture whose declared fileOffset differs from the computed binary      *)
(* offset, the written XML still declares the value it was given, the      *)
(* payload sits at the computed offset, and the header of                  *)
(* src/create_test_e57_files.py carries the computed lengths.              *)
(***************************************************************************)
C9_DeclaredOffsetNotRewritten ==
  (Done /\ req.kind = "malformed") =>
     LET computed == RoundUp(48 + Len(req.xml_content), AlignmentUnit(req.builder))
     IN  /\ FileXml = req.xml_content
         /\ DeclaredOffsets(FileXml) = DeclaredOffsets(req.xml_content)
         /\ computed \notin DeclaredOffsets(FileXml)
         /\ wrote[4].at = computed
         /\ Slice(File, computed, computed + Len(req.point_data)) = req.point_data
         /\ req.builder = "root" =>
              /\ unpack_Q(File, 16) = computed + Len(req.point_data)
              /\ unpack_Q(File, 24) = 48
              /\ unpack_Q(File, 32) = Len(req.xml_content)

\* the malformed fixture of src/create_test_e57_files.py has been written:
\* it declares 848 and its payload is at 872
C9_Witness ==
  /\ Done
  /\ req.kind = "malformed"
  /\ req.builder = "root"
  /\ DeclaredOffsets(req.xml_content) = {848}
  /\ wrote[4].at = 872

(***************************************************************************)
(* C10: two finished builds of the same description (same builder, same    *)
(* XML bytes, same payload) hold the same bytes, whether they went to two  *)
(* paths or one after the other to the same path, whatever was built in    *)
(* between.                                                                *)
(***************************************************************************)
C10_SameDescriptionSameBytes ==
  /\ \A p, q \in Paths :
       (desc[p] # NoDescription /\ desc[p] = desc[q]) => fs[p].data = fs[q].data
  /\ \A p \in Paths :
       (desc[p] # NoDescription /\ desc[p] = prev[p].desc) => fs[p].data = prev[p].data

\* one description was built to two paths, and one path was rebuilt from
\* the description it was built from before
C10_Witness ==
  /\ \E p, q \in Paths : p # q /\ desc[p] # NoDescription /\ desc[p] = desc[q]
  /\ \E p \in Paths : desc[p] # NoDescription /\ desc[p] = prev[p].desc

(***************************************************************************)
(* C11: round trip.  Decoding filePhysicalLength, xmlOffset, xmlLength and *)
(* pageSize from the written header and deriving the layout plan from them *)
(* (binaryOffset = roundUp(xmlOffset + xmlLength, unit), the unit being 8  *)
(* in src/create_test_e57_files.py and the decoded pageSize elsewhere;     *)
(* totalLength = filePhysicalLength) gives the binary_offset and the file  *)
(* length the builder wrote the file with.                                 *)
(***************************************************************************)
C11_HeaderRoundTrip ==
  (Done /\ HasBinary) =>
     LET filePhysicalLength == unpack_Q(File, 16)
         xmlOffset == unpack_Q(File, 24)
         xmlLength == unpack_Q(File, 32)
         pageSize == unpack_Q(File, 40)
         unit == IF req.builder = "root" THEN 8 ELSE pageSize
     IN  /\ pageSize > 0
         /\ RoundUp(xmlOffset + xmlLength, unit) = loc.binary_offset
         /\ filePhysicalLength = loc.file_length
         /\ filePhysicalLength = loc.binary_offset + Len(loc.point_data)

(***************************************************************************)
(* C12: when a write fails part-way through a build, a path that held a    *)
(* finished file when the build opened it still holds that file.           *)
(***************************************************************************)
C12_PreviousFileSurvivesFailure ==
  raised.type = "OSError" =>
     (prev[raised.target].desc # NoDescription =>
        fs[raised.target].data = prev[raised.target].data)

(***************************************************************************)
(* C13: the output handle is open exactly from the open that precedes the  *)
(* first write to the end of the with block: it is not open while the      *)
(* locals are computed, and it is closed when the build has ended, also    *)
(* when a write of the header, XML, padding or payload raised.             *)
(***************************************************************************)
C13_HandleClosedOnEveryExit ==
  /\ fopen <=> pc \in {"header", "xml", "pad", "payload", "close"}
  /\ raised.type # "none" => ~fopen

\* a build has ended in a failed write of each kind
C13_Witness ==
  /\ raised.type = "OSError"
  /\ raised.during \in {"xml", "payload"}
  /\ pc = "idle"
  /\ ~fopen

(***************************************************************************)
(* C14: a failed write aborts the build: no later stage is written, the    *)
(* "Created ..." report of the file is not printed, no later fixture of    *)
(* main is built, the exception is not swallowed, and the failure that is  *)
(* reported names the stage that was in progress.                          *)
(***************************************************************************)
C14_FailureAbortsAndNamesStage ==
  raised.type = "OSError" =>
     /\ outcome = "failed"
     /\ pc = "idle"
     /\ todo = <<>>
     /\ raised.target \notin reports
     /\ wrote[Len(wrote)].stage = raised.during
     /\ raised.stage = raised.during

\* the bytes the writes of the finished build were given, in order
Emitted ==
  IF HasBinary
    THEN loc.header \o loc.xml_bytes \o Zeros(wrote[3].len) \o loc.point_data
    ELSE loc.header \o loc.xml_bytes

(***************************************************************************)
(* C15: after a successful build to a path that already held a finished    *)
(* file, the path holds exactly the bytes the build emitted and nothing of *)
(* the previous file, also when the previous file was longer.              *)
(***************************************************************************)
C15_FullReplacement ==
  (Done /\ prev[req.filename].desc # NoDescription) =>
     /\ File = Emitted
     /\ Len(File) = wrote[Len(wrote)].at + wrote[Len(wrote)].len
     /\ wrote[1].at = 0

\* a finished build has replaced a longer file
C15_Witness ==
  /\ Done
  /\ prev[req.filename].desc # NoDescription
  /\ Len(prev[req.filename].data) > Len(File)
  /\ prev[req.filename].data # File

(***************************************************************************)
(* C16: every build is independent of the others: whichever builder is     *)
(* called, first or after any other builds, its open succeeds (no build    *)
(* needs what another one left behind, such as the directory test_data),   *)
(* equal descriptions give equal files, and the buffers main passes to its *)
(* later builds are the ones it passed to the running one.                 *)
(***************************************************************************)
C16_BuildsIndependent ==
  /\ raised.type # "FileNotFoundError"
  /\ \A p, q \in Paths :
       (desc[p] # NoDescription /\ desc[p] = desc[q]) => fs[p] = fs[q]
  /\ \A i \in 1..Len(todo) :
       (pc # "idle" /\ todo[i].builder = req.builder) =>
          todo[i].point_data = req.point_data


\* the number whose IEEE-754 single-precision bit pattern is bits, when it
\* is a natural number; -1 otherwise
FloatValue(bits) ==
  IF bits = 0 THEN 0
  ELSE LET e == (bits \div (2 ^ 23)) - 127
           m == bits % (2 ^ 23)
       IN  IF e >= 0 /\ e <= 23 /\ m % (2 ^ (23 - e)) = 0
             THEN 2 ^ e + m \div (2 ^ (23 - e))
             ELSE -1

\* the k-th group of four bytes of data, read as a little-endian float
CoordinateAt(data, k) == FloatValue(unpack_I(data, 4 * (k - 1)))

\* data is the coordinates of the points, 4 bytes each, x then y then z,
\* point after point, and nothing else
EncodesInOrder(data, points) ==
  /\ Len(data) = 12 * Len(points)
  /\ \A i \in 1..Len(points) : \A j \in 1..3 :
       CoordinateAt(data, 3 * (i - 1) + j) = points[i][j]

\* the bytes from the end of the XML to the alignment boundary of builder b
PaddingToAlignment(b) ==
  RoundUp(48 + Len(loc.xml_bytes), AlignmentUnit(b)) - (48 + Len(loc.xml_bytes))

(***************************************************************************)
(* C17: both payload encoders give 4 bytes per coordinate, x, y, z of each *)
(* point in input order and nothing else, so n points give 12*n bytes; the *)
(* payload of (1,2,3),(4,5,6),(7,8,9) is 36 bytes, and a file built with   *)
(* it is the 48 header bytes, the XML, the padding to the alignment        *)
(* boundary and those 36 bytes.                                            *)
(***************************************************************************)
C17_PayloadEncoding ==
  /\ enc.root_called => EncodesInOrder(enc.root, enc.points)
  /\ enc.td_called => EncodesInOrder(enc.td, enc.points)
  /\ (enc.root_called /\ enc.td_called) => enc.root = enc.td
  /\ (enc.root_called /\ enc.points = TestPointTriples) =>
        Len(enc.root) = 36 /\ enc.root = create_point_data_root
  /\ (enc.td_called /\ enc.points = TestPointTriples) =>
        Len(enc.td) = 36 /\ enc.td = create_point_data_td
  /\ (Done /\ HasBinary) =>
        /\ enc.points = TestPointTriples
        /\ loc.point_data = (IF req.builder = "root" THEN enc.root ELSE enc.td)
        /\ Len(loc.header) = 48
        /\ Len(File) = 48 + Len(loc.xml_bytes) + PaddingToAlignment(req.builder) + 36
        /\ File = loc.header \o loc.xml_bytes
                    \o Zeros(PaddingToAlignment(req.builder)) \o loc.point_data

\* both encoders have been applied to the three points of the scripts and a
\* file has been built with the payload
C17_Witness ==
  /\ enc.root_called /\ enc.td_called
  /\ enc.points = TestPointTriples
  /\ Len(enc.td) = 36
  /\ Done /\ req.builder = "td"
  /\ Len(File) = 2084

(***************************************************************************)
(* C18: when create_e57_file is given an empty payload, the file ends at   *)
(* binary_offset: it is binary_offset bytes long, the filePhysicalLength   *)
(* field of its header is binary_offset, and the zero padding from the end *)
(* of the XML to binary_offset has been written.                           *)
(***************************************************************************)
C18_EmptyPayloadEndsAtBinaryOffset ==
  (Done /\ req.builder \in {"root", "td"} /\ loc.point_data = <<>>) =>
     /\ Len(File) = loc.binary_offset
     /\ unpack_Q(File, 16) = loc.binary_offset
     /\ Slice(File, 48 + Len(loc.xml_bytes), loc.binary_offset)
          = Zeros(loc.binary_offset - (48 + Len(loc.xml_bytes)))

(***************************************************************************)
(* C19: with pageSize 1024, xmlOffset 48 and xmlLength 1600, the page      *)
(* alignment of create_e57_with_bitpack_codec and the 1024-byte alignment  *)
(* of create_e57_file (src/test_data/create_test_files.py) both give the   *)
(* binary offset 2048.                                                     *)
(***************************************************************************)
C19_Scenario1600 ==
  (lay.applied /\ lay.xml_length = 1600) =>
     /\ lay.codec = 2048
     /\ lay.td = 2048

\* the computations have been applied to xml_length 1600
C19_Witness ==
  /\ lay.applied
  /\ lay.xml_length = 1600
  /\ lay.codec = 2048

(***************************************************************************)
(* Vocabulary of C20: XML syntax, read from the bytes of a document.       *)
(***************************************************************************)
\* the text points
Text_points == <<112, 111, 105, 110, 116, 115>>

\* the text prototype
Text_prototype == <<112, 114, 111, 116, 111, 116, 121, 112, 101>>

\* the text codecs
Text_codecs == <<99, 111, 100, 101, 99, 115>>

\* the text vectorChild
Text_vectorChild == <<118, 101, 99, 116, 111, 114, 67, 104, 105, 108, 100>>

\* the text cartesianX
Text_cartesianX == <<99, 97, 114, 116, 101, 115, 105, 97, 110, 88>>

\* the text cartesianY
Text_cartesianY == <<99, 97, 114, 116, 101, 115, 105, 97, 110, 89>>

\* the text cartesianZ
Text_cartesianZ == <<99, 97, 114, 116, 101, 115, 105, 97, 110, 90>>

\* the text recordCount
Text_recordCount == <<114, 101, 99, 111, 114, 100, 67, 111, 117, 110, 116>>

\* the text type
Text_type == <<116, 121, 112, 101>>

\* the text invalid_count
Text_invalid_count == <<105, 110, 118, 97, 108, 105, 100, 95, 99, 111, 117, 110, 116>>

\* the text CompressedVectorNode
Text_CompressedVectorNode == <<67, 111, 109, 112, 114, 101, 115, 115, 101, 100, 86, 101, 99, 116, 111, 114, 78, 111, 100, 101>>

IsSpace(c) == c \in {9, 10, 13, 32}

\* the least element of a non-empty set of numbers
Least(S) == CHOOSE x \in S : \A y \in S : x <= y

\* the greatest element of a non-empty set of numbers
Greatest(S) == CHOOSE x \in S : \A y \in S : x >= y

\* s holds pat at position i
StartsWith(s, i, pat) ==
  /\ i >= 1
  /\ i + Len(pat) - 1 <= Len(s)
  /\ s[i] = pat[1]
  /\ SubSeq(s, i, i + Len(pat) - 1) = pat

\* first position at or after i where s holds pat, 0 when none
FindFrom(s, pat, i) ==
  LET found == {p \in i..(Len(s) - Len(pat) + 1) : StartsWith(s, p, pat)}
  IN  IF found = {} THEN 0 ELSE Least(found)

\* only white space in s[a..b]
AllSpace(s, a, b) == \A k \in a..b : IsSpace(s[k])

\* the quotation marks in s[a..b] pair up
QuotesPaired(s, a, b) == Cardinality({k \in a..b : s[k] = 34}) % 2 = 0

\* what the markup that starts with the < at position p of s is
Markup(s, p) ==
  IF StartsWith(s, p, <<60, 63>>) THEN "instruction"                     \* <?
  ELSE IF StartsWith(s, p, <<60, 33, 45, 45>>) THEN "comment"            \* <!--
  ELSE IF StartsWith(s, p, <<60, 33, 91, 67, 68, 65, 84, 65, 91>>) THEN "cdata"
  ELSE IF StartsWith(s, p, <<60, 33>>) THEN "other"                      \* <!
  ELSE IF StartsWith(s, p, <<60, 47>>) THEN "end"                        \* </
  ELSE "start"

\* the text that ends the markup of each kind, and the length of what opens it
Terminator(kind) ==
  IF kind = "instruction" THEN <<63, 62>>
  ELSE IF kind = "comment" THEN <<45, 45, 62>>
  ELSE IF kind = "cdata" THEN <<93, 93, 62>>
  ELSE <<62>>

OpenerLength(kind) ==
  IF kind = "instruction" THEN 2
  ELSE IF kind = "comment" THEN 4
  ELSE IF kind = "cdata" THEN 9
  ELSE IF kind = "end" THEN 2
  ELSE 1

\* the elements of document s (position of the start tag, name, depth,
\* attribute text), and whether s is one root element in which every
\* element that is opened is closed and properly nested.  Markup never
\* holds a further <, so each piece of markup ends before the next < .
XmlScan(s) ==
  LET n == Len(s)
      lts == {i \in 1..n : s[i] = 60}
      gts == {i \in 1..n : s[i] = 62}
      Following(p) ==
        LET later == {q \in lts : q > p} IN IF later = {} THEN n + 1 ELSE Least(later)
      \* position of the > that ends the markup at p, 0 when it does not end
      End(p) ==
        LET kind == Markup(s, p)
            term == Terminator(kind)
            stop == Following(p)
            ends == {g \in gts : /\ g < stop
                                 /\ g - Len(term) + 1 >= p + OpenerLength(kind)
                                 /\ StartsWith(s, g - Len(term) + 1, term)}
        IN  IF ends = {} THEN 0 ELSE Least(ends)
      \* end of the name that starts at i, in markup that ends at e
      NameEnd(i, e) ==
        Least({k \in i..e : IsSpace(s[k]) \/ s[k] \in {47, 62}} \cup {e + 1})
      tags == {p \in lts : Markup(s, p) = "start" /\ End(p) # 0}
      empties == {p \in tags : s[End(p) - 1] = 47}
      opens == tags \ empties
      closes == {p \in lts : Markup(s, p) = "end" /\ End(p) # 0}
      StartName(p) == SubSeq(s, p + 1, NameEnd(p + 1, End(p)) - 1)
      EndName(p) == SubSeq(s, p + 2, NameEnd(p + 2, End(p)) - 1)
      \* the number of elements open just before position p
      Depth(p) ==
        Cardinality({q \in opens : q < p}) - Cardinality({q \in closes : q < p})
      DepthAfter(p) ==
        Depth(p) + (IF p \in opens THEN 1 ELSE IF p \in closes THEN -1 ELSE 0)
      Partners(c) == {o \in opens : o < c /\ Depth(o) = Depth(c) - 1}
  IN  [elems |->
         {[at |-> p,
           name |-> StartName(p),
           depth |-> Depth(p) + 1,
           attrs |-> SubSeq(s, NameEnd(p + 1, End(p)),
                            IF p \in empties THEN End(p) - 2 ELSE End(p) - 1)] :
            p \in tags},
       ok |->
         /\ \A p \in lts : Markup(s, p) # "other" /\ End(p) # 0
         /\ \A p \in lts :
              StartsWith(s, p, <<60, 63, 120, 109, 108>>) => p = 1       \* <?xml
         /\ \A p \in tags : StartName(p) # <<>> /\ QuotesPaired(s, p, End(p))
         /\ \A c \in closes :
              /\ AllSpace(s, NameEnd(c + 2, End(c)), End(c) - 1)
              /\ Partners(c) # {}
              /\ StartName(Greatest(Partners(c))) = EndName(c)
         /\ Cardinality(opens) = Cardinality(closes)
         /\ Cardinality({p \in tags : Depth(p) = 0}) = 1
         /\ \A p \in lts : Markup(s, p) = "cdata" => Depth(p) >= 1
         /\ lts # {}
         /\ AllSpace(s, 1, Least(lts) - 1)
         /\ \A p \in lts :
              DepthAfter(p) = 0 => AllSpace(s, End(p) + 1, Following(p) - 1)]

\* the child elements of element x
Children(elems, x) ==
  {y \in elems :
      /\ y.at > x.at
      /\ y.depth = x.depth + 1
      /\ \A z \in elems : (z.at > x.at /\ z.at <= y.at) => z.depth > x.depth}

\* the elements called name
Named(elems, name) == {x \in elems : x.name = name}

\* the names of the children of element x
ChildNames(elems, x) == {y.name : y \in Children(elems, x)}

\* the value of attribute name of element x, in a one-element sequence; the
\* empty sequence when the element has no such attribute
Attribute(x, name) ==
  LET a == x.attrs
      p == FindFrom(a, <<32>> \o name \o <<61, 34>>, 1)
      from == p + Len(name) + 3
  IN  IF p = 0 THEN <<>>
      ELSE <<SubSeq(a, from, FindFrom(a, <<34>>, from) - 1)>>

\* the names of the fields of the prototype child of element x
PrototypeFields(elems, x) ==
  UNION {ChildNames(elems, y) : y \in Named(Children(elems, x), Text_prototype)}

\* the three coordinates of a complete prototype
Cartesian == {Text_cartesianX, Text_cartesianY, Text_cartesianZ}

\* a finished build of a malformed document by main of either script
MalformedBuilt == Done /\ req.kind = "malformed" /\ req.builder \in {"root", "td"}

(***************************************************************************)
(* C20 as stated: the malformed-record document declares                   *)
(* recordCount="invalid_count", has one of the three prototype fields, has *)
(* no codecs element, and every element it opens is closed and properly    *)
(* nested under a single root.                                             *)
(***************************************************************************)
C20_MalformedAsStated ==
  MalformedBuilt =>
     LET d == XmlScan(FileXml)
     IN  /\ d.ok
         /\ Named(d.elems, Text_points) # {}
         /\ \A x \in Named(d.elems, Text_points) :
               /\ Attribute(x, Text_recordCount) = <<Text_invalid_count>>
               /\ Cardinality(PrototypeFields(d.elems, x) \cap Cartesian) = 1
         /\ Named(d.elems, Text_codecs) = {}

(***************************************************************************)
(* C20, amended: both malformed documents are well-formed XML with one     *)
(* points element that keeps its codecs element.  The document of          *)
(* src/create_test_e57_files.py declares recordCount="invalid_count", has  *)
(* cartesianX as its only prototype field, and its codecs element is empty *)
(* (the CompressedVectorNode is missing, not the block).  The document of  *)
(* src/test_data/create_test_files.py has no recordCount attribute at all, *)
(* a complete prototype, and a codecs element with one CompressedVectorNode*)
(* whose prototype lacks cartesianZ.                                       *)
(***************************************************************************)
C20_MalformedDocuments ==
  MalformedBuilt =>
     LET d == XmlScan(FileXml)
         e == d.elems
     IN  /\ d.ok
         /\ Cardinality(Named(e, Text_points)) = 1
         /\ \A x \in Named(e, Text_points) :
              LET codecs == Named(Children(e, x), Text_codecs)
              IN  /\ Cardinality(codecs) = 1
                  /\ IF req.builder = "root"
                       THEN /\ Attribute(x, Text_recordCount) = <<Text_invalid_count>>
                            /\ PrototypeFields(e, x) = {Text_cartesianX}
                            /\ \A c \in codecs : Children(e, c) = {}
                       ELSE /\ \A y \in e : Attribute(y, Text_recordCount) = <<>>
                            /\ PrototypeFields(e, x) = Cartesian
                            /\ \A c \in codecs :
                                 /\ Cardinality(Children(e, c)) = 1
                                 /\ \A v \in Children(e, c) :
                                      /\ v.name = Text_vectorChild
                                      /\ Attribute(v, Text_type)
                                           = <<Text_CompressedVectorNode>>
                                      /\ PrototypeFields(e, v)
                                           = {Text_cartesianX, Text_cartesianY}

\* main of src/create_test_e57_files.py has built its malformed file: the
\* document in it has an empty codecs element
C20_Witness ==
  /\ MalformedBuilt
  /\ req.builder = "root"
  /\ LET e == XmlScan(FileXml).elems
     IN  \E c \in Named(e, Text_codecs) : Children(e, c) = {}

(***************************************************************************)
(* C21: the unsupported-codec fixture is well-formed but for its codec     *)
(* tag: its header has xmlOffset 48, xmlLength the length of the XML and   *)
(* filePhysicalLength the length of the file; its record declares a        *)
(* fileOffset that is a multiple of the page size at or after the end of   *)
(* the XML; and the 36 payload bytes of its 3 records are at that offset.  *)
(***************************************************************************)
C21_UnsupportedOtherwiseWellFormed ==
  (Done /\ req.builder = "unsupported") =>
     /\ unpack_Q(File, 24) = 48
     /\ unpack_Q(File, 32) = Len(loc.xml_bytes)
     /\ unpack_Q(File, 16) = Len(File)
     /\ \E offset \in DeclaredOffsets(FileXml) :
          /\ offset % unpack_Q(File, 40) = 0
          /\ offset >= 48 + Len(loc.xml_bytes)
          /\ Len(File) = offset + 36
          /\ Slice(File, offset, offset + 36) = PackFloats(TestPoints)

\* the text precision
Text_precision == <<112, 114, 101, 99, 105, 115, 105, 111, 110>>

\* the text Codec
Text_Codec == <<67, 111, 100, 101, 99>>

\* the text fileOffset
Text_fileOffset == <<102, 105, 108, 101, 79, 102, 102, 115, 101, 116>>

\* the text binarySection
Text_binarySection == <<98, 105, 110, 97, 114, 121, 83, 101, 99, 116, 105, 111, 110>>

\* the text vector
Text_vector == <<118, 101, 99, 116, 111, 114>>

\* the text bitPackCodec
Text_bitPackCodec == <<98, 105, 116, 80, 97, 99, 107, 67, 111, 100, 101, 99>>

\* the text zLibCodec
Text_zLibCodec == <<122, 76, 105, 98, 67, 111, 100, 101, 99>>

\* the elements inside element x, at any depth
Descendants(elems, x) ==
  {y \in elems :
      /\ y.at > x.at
      /\ \A z \in elems : (z.at > x.at /\ z.at <= y.at) => z.depth > x.depth}

\* name ends with the text "Codec": the element is a codec-specific tag
IsCodecTag(name) ==
  /\ Len(name) >= Len(Text_Codec)
  /\ SubSeq(name, Len(name) - Len(Text_Codec) + 1, Len(name)) = Text_Codec

\* the prototype children of element x
Prototypes(elems, x) == Named(Children(elems, x), Text_prototype)

\* the fields of the prototype of element x
Fields(elems, x) == UNION {Children(elems, y) : y \in Prototypes(elems, x)}

\* entry restates the type of the field of record x that has its name
RestatesType(elems, x, entry) ==
  \E f \in Fields(elems, x) :
     /\ f.name = entry.name
     /\ Attribute(f, Text_type) # <<>>
     /\ Attribute(entry, Text_type) = Attribute(f, Text_type)
     /\ Attribute(entry, Text_precision) = Attribute(f, Text_precision)

\* a finished build of an uncompressed document by main of either script
UncompressedBuilt == Done /\ req.kind = "valid" /\ req.builder \in {"root", "td"}

(***************************************************************************)
(* C22 as stated: the codecs block of an Uncompressed record holds one     *)
(* entry per prototype field, three in all, each restating the type of     *)
(* its field, and no codec-specific tag.                                   *)
(***************************************************************************)
C22_UncompressedAsStated ==
  UncompressedBuilt =>
     LET e == XmlScan(FileXml).elems
     IN  \A x \in Named(e, Text_points) :
           \A c \in Named(Children(e, x), Text_codecs) :
              /\ Cardinality(Children(e, c)) = 3
              /\ ChildNames(e, c) = PrototypeFields(e, x)
              /\ \A entry \in Children(e, c) : RestatesType(e, x, entry)
              /\ \A y \in Descendants(e, c) : ~IsCodecTag(y.name)

(***************************************************************************)
(* C22, amended: the codecs block of an Uncompressed record holds a single *)
(* entry, a vectorChild of type CompressedVectorNode that carries          *)
(* recordCount and fileOffset; the prototype of that entry holds one field *)
(* per prototype field of the record (cartesianX, cartesianY, cartesianZ), *)
(* each restating the type and precision of its field; and nothing in the  *)
(* block is a codec-specific tag.                                          *)
(***************************************************************************)
C22_UncompressedCodecs ==
  UncompressedBuilt =>
     LET e == XmlScan(FileXml).elems
     IN  /\ Cardinality(Named(e, Text_points)) = 1
         /\ \A x \in Named(e, Text_points) :
              /\ PrototypeFields(e, x) = Cartesian
              /\ Cardinality(Named(Children(e, x), Text_codecs)) = 1
              /\ \A c \in Named(Children(e, x), Text_codecs) :
                   /\ Cardinality(Children(e, c)) = 1
                   /\ \A v \in Children(e, c) :
                        /\ v.name = Text_vectorChild
                        /\ Attribute(v, Text_type) = <<Text_CompressedVectorNode>>
                        /\ Attribute(v, Text_recordCount) # <<>>
                        /\ Attribute(v, Text_fileOffset) # <<>>
                        /\ Cardinality(Fields(e, v)) = 3
                        /\ PrototypeFields(e, v) = PrototypeFields(e, x)
                        /\ \A entry \in Fields(e, v) : RestatesType(e, x, entry)
                   /\ \A y \in Descendants(e, c) : ~IsCodecTag(y.name)

\* main of src/test_data/create_test_files.py has built its uncompressed
\* file: the codecs block in it has one child, with three fields below it
C22_Witness ==
  /\ UncompressedBuilt
  /\ req.builder = "td"
  /\ LET e == XmlScan(FileXml).elems
     IN  \E c \in Named(e, Text_codecs) :
           /\ Cardinality(Children(e, c)) = 1
           /\ Cardinality(Descendants(e, c)) = 5

\* the text between the start tag of element x of document s and the next
\* markup
ElementText(s, x) ==
  LET from == x.at + 1 + Len(x.name) + Len(x.attrs) + 1
  IN  SubSeq(s, from, FindFrom(s, <<60>>, from) - 1)

\* the codec-specific tags in entry v of a codecs block
CodecTags(elems, v) == {y.name : y \in {z \in Children(elems, v) : IsCodecTag(z.name)}}

\* the codec variant of entry v: Uncompressed when it has no codec tag
Variant(elems, v) ==
  IF CodecTags(elems, v) = {} THEN "Uncompressed"
  ELSE IF CodecTags(elems, v) = {Text_bitPackCodec} THEN "BitPacked"
  ELSE IF CodecTags(elems, v) = {Text_zLibCodec} THEN "Unsupported"
  ELSE "conflicting"

\* a finished build of a document that is not a malformed fixture
WellFormedBuilt == Done /\ req.kind = "valid"

(***************************************************************************)
(* C23: in every document that is not a malformed fixture, each points     *)
(* record has exactly one codec entry, of exactly one variant: Uncompressed*)
(* in the two create_e57_file scripts, BitPacked and Unsupported in the    *)
(* two codec builders; a BitPacked or Unsupported entry holds one codec    *)
(* tag, one recordCount and one binarySection.                             *)
(***************************************************************************)
C23_OneCodecVariant ==
  WellFormedBuilt =>
     LET e == XmlScan(FileXml).elems
     IN  /\ Named(e, Text_points) # {}
         /\ \A x \in Named(e, Text_points) :
              /\ Cardinality(Named(Children(e, x), Text_codecs)) = 1
              /\ \A c \in Named(Children(e, x), Text_codecs) :
                   /\ Cardinality(Children(e, c)) = 1
                   /\ \A v \in Children(e, c) :
                        /\ Attribute(v, Text_type) = <<Text_CompressedVectorNode>>
                        /\ Cardinality({z \in Children(e, v) : IsCodecTag(z.name)}) <= 1
                        /\ Variant(e, v) =
                             (IF req.builder = "bitpack" THEN "BitPacked"
                              ELSE IF req.builder = "unsupported" THEN "Unsupported"
                              ELSE "Uncompressed")
                        /\ Variant(e, v) # "Uncompressed" =>
                             /\ Cardinality(Named(Children(e, v), Text_recordCount)) = 1
                             /\ Cardinality(Named(Children(e, v), Text_binarySection)) = 1
                             /\ \A r \in Named(Children(e, v), Text_recordCount) :
                                  ElementText(FileXml, r) # <<>>
                             /\ \A b \in Named(Children(e, v), Text_binarySection) :
                                  ElementText(FileXml, b) # <<>>

\* the unsupported-codec fixture has been built: its one codec entry holds
\* zLibCodec, a recordCount of 3 and a binarySection
C23_Witness ==
  /\ WellFormedBuilt
  /\ req.builder = "unsupported"
  /\ LET e == XmlScan(FileXml).elems
     IN  /\ Cardinality(Named(e, Text_zLibCodec)) = 1
         /\ \E r \in Named(e, Text_recordCount) : ElementText(FileXml, r) = <<51>>
         /\ Named(e, Text_binarySection) # {}

\* main of src/verify_sprint5_implementation.py has returned
Returned == ver.pc = "returned"

\* the files whose existence main checks: interface, mock, test and
\* documentation files
RequiredFiles == interface_files \cup mock_files \cup test_files \cup doc_files

(***************************************************************************)
(* C24: main of verify_sprint5_implementation.py returns 0 only if every   *)
(* required file exists and every content check found all its strings; a   *)
(* missing interface file or a failed content check makes it return 1.     *)
(***************************************************************************)
C24_ReturnsZeroOnlyIfComplete ==
  Returned =>
     /\ ver.code = 0 =>
          /\ RequiredFiles \subseteq ver.files
          /\ \A filepath \in content_files : check_file_contains(filepath)
     /\ (~ver.all_interfaces_exist \/ ver.crossed \cap content_files # {}) => ver.code = 1

\* the two-pass layout has replaced the attribute and re-encoded the document
Updated == two.pc \in {"updated", "written"}

LeastMultiple(v, unit) ==
  IF v % unit = 0 THEN v ELSE ((v \div unit) + 1) * unit

(***************************************************************************)
(* C26: the three alignment computations of the source (the conditional    *)
(* add of 8 - (v mod 8), v plus the padding (unit - (v mod unit)) mod      *)
(* unit, and the ceiling division ((v + unit - 1) // unit) * unit) equal   *)
(* roundUp(v, unit): v itself when v is a multiple of the unit, otherwise  *)
(* the next multiple.                                                      *)
(***************************************************************************)
C26_AlignmentsAreRoundUp ==
  lay.applied =>
     LET v == 48 + lay.xml_length
     IN  /\ lay.root = RoundUp(v, 8)
         /\ lay.td = RoundUp(v, 1024)
         /\ lay.codec = RoundUp(v, 1024)
         /\ RoundUp(v, 8) = LeastMultiple(v, 8)
         /\ RoundUp(v, 1024) = LeastMultiple(v, 1024)
         /\ lay.td = v + padding_needed_td(v)

\* the computations applied at a page boundary (xml_length 976), where each
\* leaves v = 1024 as it is
C26_Witness ==
  /\ lay.applied
  /\ (48 + lay.xml_length) % 1024 = 0
  /\ lay.root = 48 + lay.xml_length
  /\ lay.td = 48 + lay.xml_length
  /\ lay.codec = 48 + lay.xml_length

\* a build with a binary section has written its padding
Padded == pc \in {"payload", "close"} /\ HasBinary

(***************************************************************************)
(* C27: in every builder the number of padding bytes written is at least 0 *)
(* and less than the alignment unit, so that the binary offset is the      *)
(* least multiple of the unit that is not below 48 + xmlLength, and the    *)
(* payload does not overlap the XML.                                       *)
(***************************************************************************)
C27_PaddingBelowUnit ==
  Padded =>
     LET unit == AlignmentUnit(req.builder)
         xml_end == 48 + Len(loc.xml_bytes)
     IN  /\ wrote[3].stage = "padding"
         /\ wrote[3].len >= 0
         /\ wrote[3].len < unit
         /\ wrote[3].at = xml_end
         /\ loc.binary_offset = xml_end + wrote[3].len
         /\ loc.binary_offset = LeastMultiple(xml_end, unit)
         /\ pc = "close" =>
              /\ wrote[4].stage = "payload"
              /\ wrote[4].at >= xml_end
              /\ Slice(File, 48, xml_end) = loc.xml_bytes

\* the bitPackCodec fixture written: 377 bytes of padding after 1623 bytes of
\* XML, the payload at 2048
C27_Witness ==
  /\ pc = "close"
  /\ req.builder = "bitpack"
  /\ wrote[3].len = 377
  /\ wrote[4].at = 2048
  /\ wrote[4].len = 36

\* the decimal number a text spells
Number(text) == ParseDigits(text, 1, 0)

\* the number of payload bytes a build has written
PayloadWritten == IF HasBinary THEN wrote[4].len ELSE 0

\* the record counts entry v of a codecs block restates: as an attribute or
\* as a child element
RestatedCounts(s, elems, v) ==
  {Attribute(v, Text_recordCount)[1] : i \in {1} \cap DOMAIN Attribute(v, Text_recordCount)}
    \cup {ElementText(s, r) : r \in Named(Children(elems, v), Text_recordCount)}

\* the codec entries of record x
CodecEntries(elems, x) ==
  UNION {Children(elems, c) : c \in Named(Children(elems, x), Text_codecs)}

\* every record of the document declares a recordCount that each of its
\* codec entries restates
CountsRestated(s, elems) ==
  \A x \in Named(elems, Text_points) :
     /\ Attribute(x, Text_recordCount) # <<>>
     /\ \A v \in CodecEntries(elems, x) :
          /\ RestatedCounts(s, elems, v) # {}
          /\ \A text \in RestatedCounts(s, elems, v) :
               text = Attribute(x, Text_recordCount)[1]

\* the payload holds 4 bytes for each prototype field of each declared record
PayloadAsDeclared(elems, length) ==
  \A x \in Named(elems, Text_points) :
     /\ Attribute(x, Text_recordCount) # <<>>
     /\ length = Number(Attribute(x, Text_recordCount)[1])
                   * Cardinality(Fields(elems, x)) * 4

(***************************************************************************)
(* C28: in every well-formed fixture the payload written is as long as the *)
(* record's declared recordCount times the number of its prototype fields  *)
(* times 4 bytes (3 x 3 x 4 = 36), and a recordCount restated on a codec   *)
(* entry equals the recordCount of the record's CompressedVector element.  *)
(***************************************************************************)
C28_PayloadLengthDeclared ==
  WellFormedBuilt =>
     LET e == XmlScan(FileXml).elems
     IN  /\ Named(e, Text_points) # {}
         /\ PayloadAsDeclared(e, PayloadWritten)
         /\ PayloadWritten = 36
         /\ CountsRestated(FileXml, e)
=============================================================================
